---- MODULE Spec2Model ----
(***************************************************************************)
(* Verification model of the AuroraOS kernel core (src/kernel).            *)
(*                                                                         *)
(* Part 1: the physical memory manager (pmm.c).  The allocation bitmap is  *)
(* kept as the set of bit indices whose bit is 0 (free); every other bit   *)
(* of the 1 MiB bitmap is 1.  The uint64_t counters of pmm_state are kept  *)
(* as integers standing for their value modulo 2^64: a negative integer z  *)
(* stands for 2^64 + z, the value an unsigned counter holds after it has   *)
(* been decremented below zero.                                            *)
(*                                                                         *)
(* Part 2: the kernel heap (kheap.c) on top of the page mapping of vmm.c.  *)
(* Physical memory is a function from even byte addresses to 16-bit        *)
(* halfwords; block headers and page-table entries are read and written    *)
(* in it at their byte offsets, so a store through one structure is seen   *)
(* by every other structure that shares the bytes.  64-bit values are      *)
(* tuples of four halfwords, low halfword first, with arithmetic modulo    *)
(* 2^64.  Operators that model a function take the machine state           *)
(* m = [mem, bm, st, vs, hs, fault] and return the state after the call.   *)
(*                                                                         *)
(* Part 3: processes, threads and the scheduler (process.c, scheduler.c).  *)
(* Threads are named by tid and processes by pid, 0 being NULL.  The       *)
(* operators take the state k = [threads, procs, ps, ss, cpu, hang,        *)
(* picked]: cpu names the code the processor is executing (the boot code   *)
(* or the entry of a thread), a thread's context names the code that       *)
(* resumes when it is switched to, and picked lists the threads selected.  *)
(*                                                                         *)
(* Part 4: system calls, the timer, interrupts and the TSS (syscall.c,     *)
(* timer.c, idt.c, tss.c, usermode.c).  The handlers take the state        *)
(* z = [k, sys, con, tm, io]: the scheduler state, syscall_state, the      *)
(* bytes console_putchar has sent, timer_state and the handler's trace.    *)
(* The text of the kernel's own console messages is not modelled: each is  *)
(* the one element LOG.  The loop of timer_sleep is modelled statement by  *)
(* statement (the condition, the hlt, the interrupt that ends the hlt),    *)
(* and its specifications carry weak fairness for the loop and for the     *)
(* delivery of the timer interrupt.                                        *)
(***************************************************************************)
EXTENDS Integers, Sequences, FiniteSets, TLC

\* ------------------------------------------------------------------ bounds
\* pages of the small conventional region of the bounded memory maps
MaxMapPages == 2
\* frames a client of the PMM holds at the same time
MaxLive == 3
\* largest count passed to the range operations
MaxCount == 2
\* operations of the S1 scenario, and how many of them may be frees
MaxS1Ops == 12
MaxS1Frees == 1
\* frames the PMM still has after the heap's four initial pages
MaxHeapFrames == 9
\* successful heap allocations in one behaviour
MaxAllocs == 3
\* heap calls in one behaviour
MaxHeapOps == 6
\* pointers held at once, and calls made, in the kmalloc/kfree scenario
MaxHeld == 3
MaxMfOps == 6
\* calls made in the VMM scenario
MaxVmmOps == 3
\* thread and process control blocks, and calls, in the scheduler scenarios
MaxThreads == 4
MaxProcs == 4
MaxSchedOps == 5
\* steps of the round-robin scenario, and ticks of the ticks-only scenario
MaxRROps == 24
MaxTicks == 40
\* system calls made by the user program
MaxSysOps == 2
\* interrupts delivered
MaxIrqs == 6
\* timer interrupts while threads run with interrupts enabled
MaxRaceTicks == 11

\* ------------------------------------------------------- program constants
PAGE_SIZE == 4096
BITMAP_SIZE == 1048576
MEMORY_TYPE_AVAILABLE == 1
MEMORY_TYPE_RESERVED == 2
\* (16 * 1024 * 1024) / PAGE_SIZE and (1 * 1024 * 1024) / PAGE_SIZE
DEFAULT_PAGES == 4096
RESERVED_PAGES == 256
\* ADDR_TO_PAGE(0x100000) and ADDR_TO_PAGE(0x200000)
KERNEL_START_PAGE == 256
KERNEL_END_PAGE == 512

ADDR_TO_PAGE(addr) == addr \div PAGE_SIZE
PAGE_TO_ADDR(page) == page * PAGE_SIZE

VARIABLES
    page_bitmap,    \* set of page numbers whose bitmap bit is 0
    pmm_state,      \* total_pages, free_pages, used_pages, highest_page, initialized
    boot_info,      \* the boot record pmm_init was called with
    pmm_call,       \* the last PMM call: op, arg, count, ret
    held,           \* pages handed out by the allocator and not yet freed
    returned,       \* every address an allocation returned
    roundtrip,      \* only single-frame allocations and frees of held frames so far
    hist,           \* the calls of the S1 scenario, in order
    ram,            \* physical memory: even byte address -> halfword
    vmm_state,      \* pml4_physical, mapped_pages, kernel_pages, page_tables_allocated
    heap_state,     \* heap_start, heap_end, heap_size, first_block, initialized, stats
    fault,          \* the kernel dereferenced a pointer into unknown memory
    heap_call,      \* the last heap call: op, arg, n, ovf, ret
    live,           \* pointers the heap returned and the client has not freed
    freed,          \* pointers freed since the last successful allocation
    heap_ops,       \* number of heap calls made so far
    ram_present,    \* never-written memory reads with bit 0 set
    vmm_call,       \* the last VMM call: op, v, p, ok, ev
    vmap,           \* page -> frame, for the pages mapped and not unmapped since
    vmm_ops,        \* number of VMM calls made so far
    threads,        \* the thread control blocks, by tid
    procs,          \* the process control blocks, by pid
    proc_state,     \* process.c: process_list_head, current_thread, idle_process,
                    \* next_pid, next_tid
    sched_state,    \* scheduler.c: running, initialized, ready_queue_head,
                    \* ready_queue_tail, ready_count, stats
    cpu,            \* the instruction stream the CPU executes
    hang,           \* the kernel is in a loop it never leaves
    sched_call,     \* the last process / scheduler call: op, arg, ret
    sel,            \* the threads scheduler_switch_to was called with, in order
    out,            \* the letters the test threads printed, in order
    sched_ops,      \* number of process / scheduler calls made so far
    syscall_state,  \* initialized, total_syscalls, syscall_counts
    sys_call,       \* the last system call: num, arg1, arg2, arg3, ret, returned
    console,        \* what console_putchar has sent to the serial port, in order
    timer_state,    \* ticks, frequency, initialized, callback
    irq_log,        \* the last interrupt: vector, count of the interrupts and
                    \* timers of the timer interrupts handled so far, io (the EOI
                    \* writes and the calls of the timer path it made, in order)
    tss,            \* kernel_tss: rsp0
    pc,             \* where the CPU is: op is "none" in kernel_main, "user" in the
                    \* user program, "kernel" in a kernel loop, or the call that
                    \* the instruction stream by is in the middle of: its argument
                    \* thread and the statement at that comes next
    sleep           \* the timer_sleep call in progress: milliseconds, start,
                    \* target, and at: "none" before the call, "test" at the
                    \* loop condition, "hlt" halted, "done" after the return

pmm_vars == <<page_bitmap, pmm_state, boot_info, pmm_call, held, returned,
              roundtrip, hist>>
heap_vars == <<ram, vmm_state, heap_state, fault, heap_call, live, freed,
               heap_ops, ram_present>>
vmm_gvars == <<vmm_call, vmap, vmm_ops>>
sched_vars == <<threads, procs, proc_state, sched_state, cpu, hang, sched_call,
                sel, out, sched_ops>>
kern_vars == <<syscall_state, sys_call, console, timer_state, irq_log, tss, pc,
               sleep>>
vars == <<page_bitmap, pmm_state, boot_info, pmm_call, held, returned,
          roundtrip, hist, ram, vmm_state, heap_state, fault, heap_call,
          live, freed, heap_ops, ram_present, vmm_call, vmap, vmm_ops,
          threads, procs, proc_state, sched_state, cpu, hang, sched_call,
          sel, out, sched_ops, syscall_state, sys_call, console,
          timer_state, irq_log, tss, pc, sleep>>

\* ----------------------------------------------------------- bitmap helpers
bitmap_set(bm, bit) == bm \ {bit}
bitmap_clear(bm, bit) == bm \cup {bit}
bitmap_test(bm, bit) == bit \notin bm

\* unsigned comparison of two counters kept modulo 2^64
ULess(a, b) == IF (a < 0) = (b < 0) THEN a < b ELSE b < 0

Max(a, b) == IF a > b THEN a ELSE b
Min(a, b) == IF a < b THEN a ELSE b

\* ---------------------------------------------------------------- pmm_init
NoBootInfo == [memory_map |-> << >>]

Descriptor(t, startPage, n) ==
    [type |-> t, physical_start |-> PAGE_TO_ADDR(startPage), number_of_pages |-> n]

\* First pass of pmm_init: highest page over all entries, total over the
\* conventional ones.
RECURSIVE FirstPass(_, _, _)
FirstPass(mmap, i, st) ==
    IF i > Len(mmap) THEN st
    ELSE LET entry == mmap[i]
             start_page == ADDR_TO_PAGE(entry.physical_start)
             end_page == start_page + entry.number_of_pages
             hp == IF end_page > st.highest_page THEN end_page ELSE st.highest_page
             tp == IF entry.type = MEMORY_TYPE_AVAILABLE
                   THEN st.total_pages + entry.number_of_pages
                   ELSE st.total_pages
         IN FirstPass(mmap, i + 1, [st EXCEPT !.highest_page = hp, !.total_pages = tp])

\* Second pass: clear the bits of every conventional entry, counting each
\* cleared page as free.
RECURSIVE SecondPass(_, _, _)
SecondPass(mmap, i, s) ==
    IF i > Len(mmap) THEN s
    ELSE LET entry == mmap[i]
             start_page == ADDR_TO_PAGE(entry.physical_start)
             hp == s.st.highest_page
             num_pages == IF start_page + entry.number_of_pages > hp
                          THEN hp - start_page
                          ELSE entry.number_of_pages
         IN IF entry.type # MEMORY_TYPE_AVAILABLE \/ start_page >= hp
            THEN SecondPass(mmap, i + 1, s)
            ELSE SecondPass(mmap, i + 1,
                   [bm |-> s.bm \cup (start_page .. (start_page + num_pages - 1)),
                    st |-> [s.st EXCEPT !.free_pages = @ + num_pages]])

\* for (page = lo; page < hi; page++) if (!bitmap_test(page)) { bitmap_set(page);
\*     if (free_pages > 0) free_pages--; }
ReserveRange(s, lo, hi) ==
    LET hit == s.bm \cap (lo .. (hi - 1))
    IN [bm |-> s.bm \ hit,
        st |-> [s.st EXCEPT !.free_pages = Max(0, @ - Cardinality(hit))]]

\* a mutation of ReserveRange that reserves nothing
ReserveKernelSkipped(s, lo, hi) == s

ReserveKernel(s, lo, hi) == ReserveRange(s, lo, hi)

pmm_init(bi) ==
    LET zero == [total_pages |-> 0, free_pages |-> 0, used_pages |-> 0,
                 highest_page |-> 0, initialized |-> FALSE]
    IN IF Len(bi.memory_map) = 0
       THEN \* no memory map: assume 16 MiB, the first 1 MiB reserved
            LET fp == DEFAULT_PAGES - RESERVED_PAGES
            IN [bm |-> RESERVED_PAGES .. (DEFAULT_PAGES - 1),
                st |-> [total_pages |-> DEFAULT_PAGES, free_pages |-> fp,
                        used_pages |-> DEFAULT_PAGES - fp,
                        highest_page |-> DEFAULT_PAGES, initialized |-> TRUE]]
       ELSE LET p1 == FirstPass(bi.memory_map, 1, zero)
                required_bitmap_bytes == (p1.highest_page + 7) \div 8
                p1c == IF required_bitmap_bytes > BITMAP_SIZE
                       THEN [p1 EXCEPT !.highest_page = BITMAP_SIZE * 8]
                       ELSE p1
                p2 == SecondPass(bi.memory_map, 1, [bm |-> {}, st |-> p1c])
                r1 == ReserveRange(p2, 0, RESERVED_PAGES)
                r2 == ReserveKernel(r1, KERNEL_START_PAGE, KERNEL_END_PAGE)
            IN [bm |-> r2.bm,
                st |-> [r2.st EXCEPT !.used_pages = r2.st.total_pages - r2.st.free_pages,
                                     !.initialized = TRUE]]

\* ---------------------------------------------------------- PMM operations
\* Each operation maps a PMM state s = [bm, st] to [s |-> new state, ret |-> result].

\* the page the first-fit loop stops at: the lowest clear bit below highest_page
\* a mutation of FirstFreePage that takes the highest clear page
LastFreePage(s) ==
    LET cand == {p \in s.bm : p < s.st.highest_page}
    IN IF cand = {} THEN -1 ELSE CHOOSE p \in cand : \A q \in cand : p >= q

FirstFreePage(s) ==
    LET cand == {p \in s.bm : p < s.st.highest_page}
    IN IF cand = {} THEN -1 ELSE CHOOSE p \in cand : \A q \in cand : p <= q

pmm_alloc_frame(s) ==
    IF ~s.st.initialized THEN [s |-> s, ret |-> 0]
    ELSE IF s.st.free_pages = 0 THEN [s |-> s, ret |-> 0]
    ELSE LET page == FirstFreePage(s)
         IN IF page = -1 THEN [s |-> s, ret |-> 0]
            ELSE [s |-> [bm |-> bitmap_set(s.bm, page),
                         st |-> [s.st EXCEPT !.free_pages = @ - 1,
                                             !.used_pages = @ + 1]],
                  ret |-> PAGE_TO_ADDR(page)]

\* the start of the first run of count contiguous clear bits below highest_page
FirstFreeRun(s, count) ==
    LET cand == {p \in s.bm : \A i \in 0 .. (count - 1) :
                     (p + i) \in s.bm /\ p + i < s.st.highest_page}
    IN IF cand = {} THEN -1 ELSE CHOOSE p \in cand : \A q \in cand : p <= q

pmm_alloc_frames(s, count) ==
    IF ~s.st.initialized \/ count = 0 THEN [s |-> s, ret |-> 0]
    ELSE IF ULess(s.st.free_pages, count) THEN [s |-> s, ret |-> 0]
    ELSE LET start_page == FirstFreeRun(s, count)
         IN IF start_page = -1 THEN [s |-> s, ret |-> 0]
            ELSE [s |-> [bm |-> s.bm \ (start_page .. (start_page + count - 1)),
                         st |-> [s.st EXCEPT !.free_pages = @ - count,
                                             !.used_pages = @ + count]],
                  ret |-> PAGE_TO_ADDR(start_page)]

\* a mutation of pmm_free_frame that forgets the free counter
FreeFrameNoCount(s, addr) ==
    LET page == ADDR_TO_PAGE(addr)
    IN IF ~s.st.initialized \/ page >= s.st.highest_page THEN s
       ELSE IF bitmap_test(s.bm, page)
            THEN [bm |-> bitmap_clear(s.bm, page),
                  st |-> [s.st EXCEPT !.used_pages = @ - 1]]
            ELSE s

pmm_free_frame(s, addr) ==
    LET page == ADDR_TO_PAGE(addr)
    IN IF ~s.st.initialized THEN s
       ELSE IF page >= s.st.highest_page THEN s
       ELSE IF bitmap_test(s.bm, page)
            THEN [bm |-> bitmap_clear(s.bm, page),
                  st |-> [s.st EXCEPT !.free_pages = @ + 1,
                                      !.used_pages = @ - 1]]
            ELSE s

RECURSIVE pmm_free_frames(_, _, _)
pmm_free_frames(s, addr, count) ==
    IF count = 0 THEN s
    ELSE pmm_free_frame(pmm_free_frames(s, addr, count - 1),
                        addr + (count - 1) * PAGE_SIZE)

pmm_mark_used(s, addr) ==
    LET page == ADDR_TO_PAGE(addr)
    IN IF ~s.st.initialized THEN s
       ELSE IF page >= s.st.highest_page THEN s
       ELSE IF ~bitmap_test(s.bm, page)
            THEN [bm |-> bitmap_set(s.bm, page),
                  st |-> [s.st EXCEPT
                            !.free_pages = IF @ # 0 THEN @ - 1 ELSE @,
                            !.used_pages = @ + 1]]
            ELSE s

RECURSIVE pmm_mark_used_range(_, _, _)
pmm_mark_used_range(s, addr, count) ==
    IF count = 0 THEN s
    ELSE pmm_mark_used(pmm_mark_used_range(s, addr, count - 1),
                       addr + (count - 1) * PAGE_SIZE)

pmm_is_allocated(s, addr) ==
    LET page == ADDR_TO_PAGE(addr)
    IN IF ~s.st.initialized THEN TRUE
       ELSE IF page >= s.st.highest_page THEN TRUE
       ELSE bitmap_test(s.bm, page)

\* ------------------------------------------------- 64-bit machine words
\* Part 2 (vmm.c, kheap.c) keeps physical memory as a sparse array of
\* 16-bit halfwords, so that a uint64_t is four of them, least significant
\* first, and arithmetic wraps at 2^64 as it does in the kernel.
W16 == 65536

U64(n) == << n % W16, n \div W16, 0, 0 >>

U64Add(a, b) ==
    LET s1 == a[1] + b[1]
        s2 == a[2] + b[2] + s1 \div W16
        s3 == a[3] + b[3] + s2 \div W16
        s4 == a[4] + b[4] + s3 \div W16
    IN << s1 % W16, s2 % W16, s3 % W16, s4 % W16 >>

U64Sub(a, b) ==
    LET d1 == a[1] - b[1]
        d2 == a[2] - b[2] + d1 \div W16
        d3 == a[3] - b[3] + d2 \div W16
        d4 == a[4] - b[4] + d3 \div W16
    IN << d1 % W16, d2 % W16, d3 % W16, d4 % W16 >>

U64Less(a, b) ==
    \/ a[4] < b[4]
    \/ a[4] = b[4] /\ a[3] < b[3]
    \/ a[4] = b[4] /\ a[3] = b[3] /\ a[2] < b[2]
    \/ a[4] = b[4] /\ a[3] = b[3] /\ a[2] = b[2] /\ a[1] < b[1]

U64Leq(a, b) == a = b \/ U64Less(a, b)

\* num * u, by repeated addition
RECURSIVE U64Times(_, _)
U64Times(num, u) == IF num = 0 THEN U64(0) ELSE U64Add(U64Times(num - 1, u), u)

\* a word that fits the model's integers, and its value
IsSmall(u) == u[3] = 0 /\ u[4] = 0 /\ u[2] < 32768
N(u) == u[2] * W16 + u[1]

\* 2^64 - k
U64Neg(k) == U64Sub(U64(0), U64(k))

\* ((addr) + (align) - 1) & ~((align) - 1), for a power of two up to 2^16
ALIGN_UP(u, align) ==
    LET t == U64Add(u, U64(align - 1))
    IN << t[1] - (t[1] % align), t[2], t[3], t[4] >>

\* ------------------------------------------------------- physical memory
\* mem maps the even byte addresses that have been written to the halfword
\* stored there.  The low 16 MiB are identity mapped by the bootstrap page
\* tables, so the kernel's pointers below 16 MiB are physical addresses.
Store64(mem, a, u) ==
    (a :> u[1] @@ (a + 2) :> u[2] @@ (a + 4) :> u[3] @@ (a + 6) :> u[4]) @@ mem

Store32(mem, a, w) == (a :> w[1] @@ (a + 2) :> w[2]) @@ mem

Load64(mem, a) == << mem[a], mem[a + 2], mem[a + 4], mem[a + 6] >>
Load32(mem, a) == << mem[a], mem[a + 2] >>

Written(mem, a, len) == \A x \in {a + 2 * i : i \in 0 .. (len \div 2 - 1)} : x \in DOMAIN mem

\* -------------------------------------------------------------- constants
PTE_PRESENT == 1
PTE_WRITE == 2
PTE_HUGE == 128
PTE_KERNEL_FLAGS == 3
ENTRIES_PER_TABLE == 512
\* the three page-table buffers of the kernel image (.bss); their link
\* addresses lie in the kernel range 1 MiB .. 2 MiB
STATIC_PML4 == 2084864
STATIC_PDPT == 2088960
STATIC_PD == 2093056

HEADER_SIZE == 36
HEAP_START_ADDR == 2097152
HEAP_INITIAL_SIZE == 16384
HEAP_MAX_SIZE == 16777216
HEAP_MIN_BLOCK == 16
BLOCK_FREE == 0
BLOCK_USED == 1
\* 0xDEADBEEF, low halfword first
BLOCK_MAGIC == << 48879, 57005 >>
NULL == 0
\* a pointer value that is not an address of the model's memory
WILD == -2
\* the walk of the page tables stopped: there is no table to go on with
NOTABLE == -1
\* a present entry of unknown contents: its address bits are not an address
\* of the model's memory
GARBAGE_ENTRY == << 1, 0, 0, 1 >>

\* ------------------------------------------------------------------- VMM
\* pte & PTE_ADDR_MASK (bits 12..51)
pte_get_addr(pte) == << pte[1] - (pte[1] % 4096), pte[2], pte[3], pte[4] % 16 >>

\* (phys_addr & PTE_ADDR_MASK) | (flags & PTE_FLAGS_MASK), for a page-aligned
\* physical address below 2^31 and flags below 2^12
pte_create(phys_addr, flags) == U64((phys_addr - (phys_addr % 4096)) + flags)

\* the address a 64-bit pointer value denotes in the model
ToAddr(u) == IF IsSmall(u) THEN N(u) ELSE WILD

InStaticTables(a) == a >= STATIC_PML4 /\ a < STATIC_PD + PAGE_SIZE

\* The 64-bit entry at address a.  The static tables lie in .bss, zeroed by
\* the loader; any other location that was never written, or that lies in a
\* payload its owner may have written, holds garbage, of which only the
\* present bit matters: it reads as the caller-supplied guess.
ReadEntry(mem, a, garbagePresent) ==
    IF Written(mem, a, 8) THEN Load64(mem, a)
    ELSE IF InStaticTables(a) THEN U64(0)
    ELSE IF garbagePresent THEN GARBAGE_ENTRY ELSE U64(0)

IsPresent(e) == e[1] % 2 = 1

\* vmm_init, phase 1: PML4[0] -> PDPT[0] -> PD[0..7], eight 2 MiB huge pages
RECURSIVE StoreHugePages(_, _)
StoreHugePages(mem, i) ==
    IF i = 8 THEN mem
    ELSE StoreHugePages(
             Store64(mem, STATIC_PD + 8 * i,
                     pte_create(i * 2 * 1024 * 1024, PTE_PRESENT + PTE_WRITE + PTE_HUGE)),
             i + 1)

vmm_bootstrap(mem) ==
    StoreHugePages(
        Store64(Store64(mem, STATIC_PML4, pte_create(STATIC_PDPT, PTE_PRESENT + PTE_WRITE)),
                STATIC_PDPT, pte_create(STATIC_PD, PTE_PRESENT + PTE_WRITE)),
        0)

VmmBootState == [pml4_physical |-> STATIC_PML4, mapped_pages |-> 0,
                 kernel_pages |-> 4096, page_tables_allocated |-> 3]

\* One level of the walk of vmm_get_pte, the entry e read at address ea of
\* the table at base: the table e points to, allocated from the PMM when e
\* is not present and create is set.  m is the machine state [mem, bm, st,
\* vs, hs, fault]; the result is [m, table], table = NOTABLE when the walk
\* stops.
WalkAlloc(m, ea, r) ==
    IF r.ret = 0 THEN [m |-> m, table |-> NOTABLE]
    ELSE [m |-> [m EXCEPT !.bm = r.s.bm, !.st = r.s.st,
                          !.mem = Store64(@, ea, pte_create(r.ret, PTE_KERNEL_FLAGS)),
                          !.vs.page_tables_allocated = @ + 1],
          table |-> r.ret]

WalkEntry(m, base, ea, e, create) ==
    IF base = WILD THEN [m |-> [m EXCEPT !.fault = TRUE], table |-> NOTABLE]
    ELSE IF IsPresent(e) THEN [m |-> m, table |-> ToAddr(pte_get_addr(e))]
    ELSE IF ~create THEN [m |-> m, table |-> NOTABLE]
    ELSE WalkAlloc(m, ea, pmm_alloc_frame([bm |-> m.bm, st |-> m.st]))

WalkLevel(m, base, idx, create, garbagePresent) ==
    WalkEntry(m, base, base + 8 * idx,
              ReadEntry(m.mem, base + 8 * idx, garbagePresent), create)

\* the next level, from the result l of the level above
WalkNext(l, idx, create, garbagePresent) ==
    IF l.table = NOTABLE THEN l
    ELSE WalkLevel(l.m, l.table, idx, create, garbagePresent)

\* return &pt->entries[vaddr.pt_index]; entry 0 of a table at address 0 is
\* the null pointer
PteOf(l2, pt_index) ==
    IF l2.table = NOTABLE THEN [m |-> l2.m, pte |-> NULL]
    ELSE IF l2.table = WILD THEN [m |-> [l2.m EXCEPT !.fault = TRUE], pte |-> NULL]
    ELSE [m |-> l2.m, pte |-> l2.table + 8 * pt_index]

\* vmm_get_pte for a virtual address below 2^39 (PML4 index 0): the address
\* of the leaf entry, or NULL.  A present PD entry is followed whether or
\* not its huge bit is set.
vmm_get_pte(m, virt_addr, create, garbagePresent) ==
    PteOf(WalkNext(WalkNext(WalkLevel(m, m.vs.pml4_physical, 0, create, garbagePresent),
                            (virt_addr \div 1073741824) % ENTRIES_PER_TABLE,
                            create, garbagePresent),
                   (virt_addr \div 2097152) % ENTRIES_PER_TABLE, create, garbagePresent),
          (virt_addr \div 4096) % ENTRIES_PER_TABLE)

\* vmm_map_page from the leaf entry on: store it at the address g.pte.
\* wrote tells whether a leaf entry was stored.
MapAt(g, phys_addr, flags, garbagePresent) ==
    IF g.pte = NULL THEN [m |-> g.m, ok |-> FALSE, wrote |-> FALSE]
    ELSE [m |-> [g.m EXCEPT
                   !.mem = Store64(@, g.pte, pte_create(phys_addr, flags + PTE_PRESENT
                                              - (IF flags % 2 = 1 THEN PTE_PRESENT ELSE 0))),
                   !.vs.mapped_pages =
                       IF IsPresent(ReadEntry(g.m.mem, g.pte, garbagePresent))
                       THEN @ ELSE @ + 1],
          ok |-> TRUE, wrote |-> TRUE]

\* what a call did to the leaf entry and the TLB entry of page v, in order
PteWrite(v) == [ev |-> "pte", page |-> v]
Invlpg(v) == [ev |-> "invlpg", page |-> v]

\* the entry is stored and the page is not invalidated
FlushSkipped(r, v) ==
    [m |-> r.m, ok |-> r.ok, ev |-> IF r.wrote THEN << PteWrite(v) >> ELSE << >>]

\* the rest of vmm_map_page and vmm_unmap_page after the entry was stored:
\* vmm_flush_tlb_single(virt_addr); return true
FlushSingle(r, v) ==
    [m |-> r.m, ok |-> r.ok,
     ev |-> IF r.wrote THEN << PteWrite(v), Invlpg(v) >> ELSE << >>]

vmm_map_page(m, virt_addr, phys_addr, flags, garbagePresent) ==
    FlushSingle(
        MapAt(vmm_get_pte(m, virt_addr - (virt_addr % PAGE_SIZE), TRUE, garbagePresent),
              phys_addr, flags, garbagePresent),
        virt_addr - (virt_addr % PAGE_SIZE))

\* vmm_unmap_page from the leaf entry on: *pte = 0; mapped_pages--
\* (mapped_pages is a uint64_t: below 0 it wraps, written -1, -2, ... here)
UnmapAt(g, garbagePresent) ==
    IF g.m.fault \/ g.pte = NULL THEN [m |-> g.m, ok |-> FALSE, wrote |-> FALSE]
    ELSE IF ~IsPresent(ReadEntry(g.m.mem, g.pte, garbagePresent))
    THEN [m |-> g.m, ok |-> FALSE, wrote |-> FALSE]
    ELSE [m |-> [g.m EXCEPT !.mem = Store64(@, g.pte, U64(0)),
                            !.vs.mapped_pages = @ - 1],
          ok |-> TRUE, wrote |-> TRUE]

vmm_unmap_page(m, virt_addr, garbagePresent) ==
    FlushSingle(
        UnmapAt(vmm_get_pte(m, virt_addr - (virt_addr % PAGE_SIZE), FALSE, garbagePresent),
                garbagePresent),
        virt_addr - (virt_addr % PAGE_SIZE))

\* vmm_get_physical from the leaf entry on; the result is a 64-bit word
PhysicalAt(g, offset, garbagePresent) ==
    IF g.m.fault \/ g.pte = NULL THEN U64(0)
    ELSE IF ~IsPresent(ReadEntry(g.m.mem, g.pte, garbagePresent)) THEN U64(0)
    ELSE U64Add(pte_get_addr(ReadEntry(g.m.mem, g.pte, garbagePresent)), U64(offset))

vmm_get_physical(m, virt_addr, garbagePresent) ==
    PhysicalAt(vmm_get_pte(m, virt_addr - (virt_addr % PAGE_SIZE), FALSE, garbagePresent),
               virt_addr % PAGE_SIZE, garbagePresent)

\* the lookup dereferences a pointer that is not an address of memory
GetPhysicalFaults(m, virt_addr, garbagePresent) ==
    vmm_get_pte(m, virt_addr - (virt_addr % PAGE_SIZE), FALSE, garbagePresent).m.fault

\* the loop of vmm_map_range over the pages v, v + 4096, ... below virt_end;
\* r is the result so far
RECURSIVE MapRangeLoop(_, _, _, _, _, _)
MapRangeNext(r, k, v, p, virt_end, flags, garbagePresent) ==
    IF ~k.ok THEN [m |-> k.m, ok |-> FALSE, ev |-> r.ev \o k.ev]
    ELSE MapRangeLoop([m |-> k.m, ok |-> TRUE, ev |-> r.ev \o k.ev],
                      v + PAGE_SIZE, p + PAGE_SIZE, virt_end, flags, garbagePresent)

MapRangeLoop(r, v, p, virt_end, flags, garbagePresent) ==
    IF v >= virt_end THEN r
    ELSE MapRangeNext(r, vmm_map_page(r.m, v, p, flags, garbagePresent),
                      v, p, virt_end, flags, garbagePresent)

\* vmm_map_range for addresses and sizes below 2^31
vmm_map_range(m, virt_addr, phys_addr, size, flags, garbagePresent) ==
    MapRangeLoop([m |-> m, ok |-> TRUE, ev |-> << >>],
                 virt_addr - (virt_addr % PAGE_SIZE),
                 phys_addr - (phys_addr % PAGE_SIZE),
                 N(ALIGN_UP(U64(virt_addr + size), PAGE_SIZE)), flags, garbagePresent)

\* the loop of vmm_unmap_range: the result of vmm_unmap_page is not looked at
RECURSIVE UnmapRangeLoop(_, _, _, _)
UnmapRangeNext(r, k, v, virt_end, garbagePresent) ==
    UnmapRangeLoop([m |-> k.m, ok |-> TRUE, ev |-> r.ev \o k.ev],
                   v + PAGE_SIZE, virt_end, garbagePresent)

UnmapRangeLoop(r, v, virt_end, garbagePresent) ==
    IF v >= virt_end THEN r
    ELSE UnmapRangeNext(r, vmm_unmap_page(r.m, v, garbagePresent),
                        v, virt_end, garbagePresent)

vmm_unmap_range(m, virt_addr, size, garbagePresent) ==
    UnmapRangeLoop([m |-> m, ok |-> TRUE, ev |-> << >>],
                   virt_addr - (virt_addr % PAGE_SIZE),
                   N(ALIGN_UP(U64(virt_addr + size), PAGE_SIZE)), garbagePresent)

\* ----------------------------------------------------------- kernel heap
\* block_header_t is packed: size at +0, flags at +8, next at +16, prev at
\* +24 (8 bytes each) and the 32-bit magic at +32; sizeof is 36.
BSize(mem, b) == Load64(mem, b)
BFlags(mem, b) == Load64(mem, b + 8)
BNext(mem, b) == Load64(mem, b + 16)
BPrev(mem, b) == Load64(mem, b + 24)
BMagic(mem, b) == Load32(mem, b + 32)

\* the 36 bytes at b hold known values: b can be read as a block header
IsHeader(mem, b) == b > 0 /\ Written(mem, b, HEADER_SIZE)

\* (block->flags & BLOCK_USED) != 0
IsUsed(mem, b) == BFlags(mem, b)[1] % 2 = 1

block_to_ptr(block) == block + HEADER_SIZE
ptr_to_block(ptr) == ptr - HEADER_SIZE

validate_block(mem, block) ==
    /\ block # NULL
    /\ BMagic(mem, block) = BLOCK_MAGIC
    /\ BSize(mem, block) # U64(0)

Inc(u) == U64Add(u, U64(1))
Dec(u) == U64Sub(u, U64(1))

Fault(m) == [m EXCEPT !.fault = TRUE]

\* find_free_block: the first valid free block of at least size bytes, NULL
\* when the walk ends or meets an invalid block, WILD when the walk reads a
\* header through a pointer that does not point into known memory
RECURSIVE FindFrom(_, _, _)
FindFrom(mem, current, size) ==
    IF current = NULL THEN NULL
    ELSE IF ~IsHeader(mem, current) THEN WILD
    ELSE IF ~validate_block(mem, current) THEN NULL
    ELSE IF ~IsUsed(mem, current) /\ U64Leq(size, BSize(mem, current)) THEN current
    ELSE FindFrom(mem, ToAddr(BNext(mem, current)), size)

find_free_block(m, size) == FindFrom(m.mem, m.hs.first_block, size)

split_block(m, block, size) ==
    LET bs == BSize(m.mem, block)
        remaining == U64Sub(U64Sub(bs, size), U64(HEADER_SIZE))
        new_block == block + HEADER_SIZE + N(size)
        nxt == BNext(m.mem, block)
        mem1 == Store32(Store64(Store64(Store64(Store64(m.mem,
                    new_block, remaining),
                    new_block + 8, U64(BLOCK_FREE)),
                    new_block + 16, nxt),
                    new_block + 24, U64(block)),
                    new_block + 32, BLOCK_MAGIC)
        mem2 == IF nxt # U64(NULL) THEN Store64(mem1, ToAddr(nxt) + 24, U64(new_block))
                ELSE mem1
    IN IF U64Less(bs, U64Add(size, U64(HEADER_SIZE + HEAP_MIN_BLOCK))) THEN m
       ELSE IF ~IsSmall(size) THEN Fault(m)
       ELSE IF nxt # U64(NULL) /\ ~IsHeader(m.mem, ToAddr(nxt)) THEN Fault(m)
       ELSE [m EXCEPT !.mem = Store64(Store64(mem2, block + 16, U64(new_block)),
                                      block, size),
                      !.hs.stats.num_blocks = Inc(@),
                      !.hs.stats.num_free_blocks = Inc(@)]

\* kheap_coalesce, from the block current on
RECURSIVE CoalesceFrom(_, _)
CoalesceFrom(m, current) ==
    IF current = NULL THEN m
    ELSE IF ~IsHeader(m.mem, current) THEN Fault(m)
    ELSE LET nxt == BNext(m.mem, current)
             next == ToAddr(nxt)
         IN IF nxt = U64(NULL) THEN m
            ELSE IF ~validate_block(m.mem, current) THEN m
            ELSE IF ~IsHeader(m.mem, next) THEN Fault(m)
            ELSE IF ~IsUsed(m.mem, current) /\ ~IsUsed(m.mem, next)
            THEN LET nn == BNext(m.mem, next)
                     mem1 == Store64(Store64(m.mem,
                                 current, U64Add(BSize(m.mem, current),
                                                 U64Add(U64(HEADER_SIZE), BSize(m.mem, next)))),
                                 current + 16, nn)
                     mem2 == IF nn # U64(NULL) THEN Store64(mem1, ToAddr(nn) + 24, U64(current))
                             ELSE mem1
                 IN IF nn # U64(NULL) /\ ~IsHeader(m.mem, ToAddr(nn)) THEN Fault(m)
                    ELSE CoalesceFrom([m EXCEPT !.mem = mem2,
                                                !.hs.stats.num_blocks = Dec(@),
                                                !.hs.stats.num_free_blocks = Dec(@)],
                                      current)
            ELSE CoalesceFrom(m, next)

kheap_coalesce(m) == CoalesceFrom(m, m.hs.first_block)

\* the allocation loop of kheap_expand from page i on; G is the set of page
\* indices whose leaf entry, when it was never written, reads as present
RECURSIVE ExpandLoop(_, _, _, _)

\* after vmm_map_page of page i
ExpandMapped(mp, phys, i, size, G) ==
    IF ~mp.ok
    THEN [m |-> [mp.m EXCEPT
                   !.bm = pmm_free_frame([bm |-> mp.m.bm, st |-> mp.m.st], phys).bm,
                   !.st = pmm_free_frame([bm |-> mp.m.bm, st |-> mp.m.st], phys).st],
          ok |-> FALSE]
    ELSE ExpandLoop(mp.m, i + 1, size, G)

\* after pmm_alloc_frame for page i
ExpandPage(m, r, i, size, G) ==
    IF r.ret = 0 THEN [m |-> m, ok |-> FALSE]
    ELSE ExpandMapped(vmm_map_page([m EXCEPT !.bm = r.s.bm, !.st = r.s.st],
                                   m.hs.heap_end + i * PAGE_SIZE, r.ret,
                                   PTE_KERNEL_FLAGS, i \in G),
                      r.ret, i, size, G)

ExpandLoop(m, i, size, G) ==
    IF ~U64Less(U64(i * PAGE_SIZE), size) THEN [m |-> m, ok |-> TRUE]
    ELSE ExpandPage(m, pmm_alloc_frame([bm |-> m.bm, st |-> m.st]), i, size, G)

\* while (last && last->next) last = last->next;
RECURSIVE LastFrom(_, _)
LastFrom(mem, last) ==
    IF ~IsHeader(mem, last) THEN WILD
    ELSE IF BNext(mem, last) = U64(NULL) THEN last
    ELSE LastFrom(mem, ToAddr(BNext(mem, last)))

\* the header of the new block at heap_end
NewBlock(mem, new_block, size) ==
    Store32(Store64(Store64(Store64(Store64(mem,
        new_block, U64Sub(size, U64(HEADER_SIZE))),
        new_block + 8, U64(BLOCK_FREE)),
        new_block + 16, U64(NULL)),
        new_block + 24, U64(NULL)),
        new_block + 32, BLOCK_MAGIC)

\* kheap_expand from the update of heap_end on
ExpandDone(m, size, mem2) ==
    kheap_coalesce(
        [m EXCEPT !.mem = mem2,
                  !.hs.first_block = IF @ = NULL THEN m.hs.heap_end ELSE @,
                  !.hs.heap_end = @ + N(size),
                  !.hs.heap_size = @ + N(size),
                  !.hs.stats.total_size = U64Add(@, size),
                  !.hs.stats.free_size = U64Add(@, U64Sub(size, U64(HEADER_SIZE))),
                  !.hs.stats.num_blocks = Inc(@),
                  !.hs.stats.num_free_blocks = Inc(@)])

\* last->next = new_block; new_block->prev = last
ExpandAfter(m, size, mem1, last) ==
    IF last = WILD THEN Fault(m)
    ELSE ExpandDone(m, size, Store64(Store64(mem1, last + 16, U64(m.hs.heap_end)),
                                     m.hs.heap_end + 24, U64(last)))

\* kheap_expand after the allocation loop, whose result is lp
ExpandAppend(size, lp) ==
    IF ~lp.ok \/ lp.m.fault THEN lp.m
    ELSE IF ~IsSmall(size) THEN Fault(lp.m)
    ELSE IF lp.m.hs.first_block = NULL
    THEN ExpandDone(lp.m, size, NewBlock(lp.m.mem, lp.m.hs.heap_end, size))
    ELSE ExpandAfter(lp.m, size, NewBlock(lp.m.mem, lp.m.hs.heap_end, size),
                     LastFrom(NewBlock(lp.m.mem, lp.m.hs.heap_end, size),
                              lp.m.hs.first_block))

\* kheap_expand for a size that is already page-aligned
ExpandAligned(m, size, G) ==
    IF U64Less(U64(HEAP_MAX_SIZE), U64Add(U64(m.hs.heap_size), size)) THEN m
    ELSE ExpandAppend(size, ExpandLoop(m, 0, size, G))

kheap_expand(m, reqsize, G) == ExpandAligned(m, ALIGN_UP(reqsize, PAGE_SIZE), G)

\* kmalloc from "Mark as used" on; ms is the state after split_block
KmallocMark(ms, block) ==
    IF ms.fault THEN [m |-> ms, ret |-> NULL]
    ELSE [m |-> [ms EXCEPT
                   !.mem = Store64(@, block + 8, U64(BLOCK_USED)),
                   !.hs.stats.used_size = U64Add(@, BSize(ms.mem, block)),
                   !.hs.stats.free_size = U64Sub(@, BSize(ms.mem, block)),
                   !.hs.stats.num_used_blocks = Inc(@),
                   !.hs.stats.num_free_blocks = Dec(@),
                   !.hs.stats.num_allocations = Inc(@)],
          ret |-> block_to_ptr(block)]

\* kmalloc once a block was found
KmallocTake(m, block, size) ==
    IF block = WILD THEN [m |-> Fault(m), ret |-> NULL]
    ELSE IF block = NULL THEN [m |-> m, ret |-> NULL]
    ELSE KmallocMark(split_block(m, block, size), block)

\* kmalloc after kheap_expand: the second search
KmallocExpanded(me, size) ==
    IF me.fault THEN [m |-> me, ret |-> NULL]
    ELSE KmallocTake(me, find_free_block(me, size), size)

\* kmalloc after the first search, which found b1
KmallocFound(m, size, b1, G) ==
    IF b1 # NULL THEN KmallocTake(m, b1, size)
    ELSE KmallocExpanded(
             kheap_expand(m, ALIGN_UP(U64Add(size, U64(HEADER_SIZE)), PAGE_SIZE), G),
             size)

\* kmalloc; the result is [m, ret]
kmalloc(m, reqsize, G) ==
    IF ~m.hs.initialized \/ reqsize = U64(0) THEN [m |-> m, ret |-> NULL]
    ELSE KmallocFound(m, ALIGN_UP(reqsize, 8),
                      find_free_block(m, ALIGN_UP(reqsize, 8)), G)

kfree(m, ptr) ==
    IF ptr = NULL THEN m
    ELSE IF ~m.hs.initialized THEN m
    ELSE IF ~IsHeader(m.mem, ptr_to_block(ptr)) THEN Fault(m)
    ELSE IF ~validate_block(m.mem, ptr_to_block(ptr)) THEN m
    ELSE IF ~IsUsed(m.mem, ptr_to_block(ptr)) THEN m
    ELSE kheap_coalesce(
             [m EXCEPT
                !.mem = Store64(@, ptr_to_block(ptr) + 8, U64(BLOCK_FREE)),
                !.hs.stats.used_size = U64Sub(@, BSize(m.mem, ptr_to_block(ptr))),
                !.hs.stats.free_size = U64Add(@, BSize(m.mem, ptr_to_block(ptr))),
                !.hs.stats.num_used_blocks = Dec(@),
                !.hs.stats.num_free_blocks = Inc(@),
                !.hs.stats.num_frees = Inc(@)])

\* the bytes [a, a + len) hold values the model does not know
Havoc(mem, a, len) ==
    [x \in {y \in DOMAIN mem : y < a \/ (IsSmall(len) /\ y >= a + N(len))} |-> mem[x]]

U64Min(a, b) == IF U64Less(a, b) THEN a ELSE b

\* the copy loop of krealloc moves min(block->size, new_size) payload bytes,
\* which the model does not track: it shows only where the loop runs past
\* the payload of the new block
KreallocCopy(m, ptr, new_ptr, new_size) ==
    IF U64Leq(U64Min(BSize(m.mem, ptr_to_block(ptr)), new_size),
              BSize(m.mem, ptr_to_block(new_ptr)))
    THEN m
    ELSE [m EXCEPT !.mem = Havoc(@, new_ptr,
                                 U64Min(BSize(m.mem, ptr_to_block(ptr)), new_size))]

\* krealloc after the kmalloc of the new block, whose result is k
KreallocMoved(k, ptr, new_size) ==
    IF k.ret = NULL THEN k
    ELSE [m |-> kfree(KreallocCopy(k.m, ptr, k.ret, new_size), ptr), ret |-> k.ret]

krealloc(m, ptr, new_size, G) ==
    IF ptr = NULL THEN kmalloc(m, new_size, G)
    ELSE IF new_size = U64(0) THEN [m |-> kfree(m, ptr), ret |-> NULL]
    ELSE IF ~IsHeader(m.mem, ptr_to_block(ptr)) THEN [m |-> Fault(m), ret |-> NULL]
    ELSE IF ~validate_block(m.mem, ptr_to_block(ptr)) THEN [m |-> m, ret |-> NULL]
    ELSE IF U64Leq(new_size, BSize(m.mem, ptr_to_block(ptr))) THEN [m |-> m, ret |-> ptr]
    ELSE KreallocMoved(kmalloc(m, new_size, G), ptr, new_size)

\* num * size overflows 64 bits
RECURSIVE TimesOverflows(_, _)
TimesOverflows(num, u) ==
    IF num = 0 THEN FALSE
    ELSE \/ TimesOverflows(num - 1, u)
         \/ U64Less(U64Times(num, u), U64Times(num - 1, u))

\* the zeroing loop of kcalloc stays inside the payload unless total is
\* larger than the block kmalloc returned, when it runs on to unmapped memory
KcallocZero(k, total) ==
    IF k.ret = NULL THEN k
    ELSE IF U64Less(BSize(k.m.mem, ptr_to_block(k.ret)), total)
    THEN [m |-> Fault(k.m), ret |-> k.ret]
    ELSE k

kcalloc(m, num, size, G) ==
    KcallocZero(kmalloc(m, U64Times(num, size), G), U64Times(num, size))

ZeroStats == [total_size |-> U64(0), used_size |-> U64(0), free_size |-> U64(0),
              num_blocks |-> U64(0), num_free_blocks |-> U64(0),
              num_used_blocks |-> U64(0), num_allocations |-> U64(0),
              num_frees |-> U64(0)]

\* static heap_state = {0}
ZeroHeap == [heap_start |-> 0, heap_end |-> 0, heap_size |-> 0,
             first_block |-> NULL, initialized |-> FALSE, stats |-> ZeroStats]

\* kheap_init after kheap_expand(HEAP_INITIAL_SIZE)
KheapInitDone(m1) ==
    IF m1.hs.heap_size = 0 THEN m1
    ELSE [m1 EXCEPT !.hs.initialized = TRUE]

kheap_init(m, G) ==
    KheapInitDone(kheap_expand([m EXCEPT !.hs.heap_start = HEAP_START_ADDR,
                                         !.hs.heap_end = HEAP_START_ADDR,
                                         !.hs.heap_size = 0],
                               U64(HEAP_INITIAL_SIZE), G))

RECURSIVE_SLOT == 511

\* vmm_init for a boot record with a valid magic and kernel_size 0, which is
\* what both loaders pass: phase 2 maps no page
vmm_init(m) ==
    [m EXCEPT !.mem = Store64(vmm_bootstrap(@), STATIC_PML4 + 8 * RECURSIVE_SLOT,
                              pte_create(STATIC_PML4, PTE_KERNEL_FLAGS)),
              !.vs = VmmBootState]

\* ------------------------------------------------- processes and threads
\* syscall.h
SYSCALL_EXIT == 0
SYSCALL_WRITE == 1
SYSCALL_READ == 2
SYSCALL_GETPID == 5
SYSCALL_SLEEP == 10
SYSCALL_YIELD == 11
SYSCALL_MAX == 15
EINVAL == 1
ENOSYS == 2
EBADF == 3
STDIN_FILENO == 0
STDOUT_FILENO == 1
STDERR_FILENO == 2
\* idt.h, timer.h
IRQ_TIMER == 32
PIT_BASE_FREQUENCY == 1193182
TIMER_FREQ_1000HZ == 1000

\* task_state_t
TASK_STATE_NEW == "new"
TASK_STATE_READY == "ready"
TASK_STATE_RUNNING == "running"
TASK_STATE_BLOCKED == "blocked"
TASK_STATE_SLEEPING == "sleeping"
TASK_STATE_ZOMBIE == "zombie"
TASK_STATE_DEAD == "dead"

SCHED_DEFAULT_TIME_SLICE == 10

\* a uint32_t as two 16-bit halves, low half first
U32(n) == << n % W16, n \div W16 >>
Inc32(u) == << (u[1] + 1) % W16, (u[2] + (u[1] + 1) \div W16) % W16 >>
Dec32(u) == << (u[1] - 1) % W16, (u[2] + (u[1] - 1) \div W16) % W16 >>

\* A thread_t is named by its tid and a process_t by its pid; NULL is 0.
\* memory that holds no control block
NoThread == [state |-> "none", process |-> NULL, next |-> NULL, prev |-> NULL,
             time_slice |-> 0, total_runtime |-> 0, context |-> NULL]
NoProc == [main_thread |-> NULL, thread_list |-> NULL, thread_count |-> 0,
           parent |-> NULL, next |-> NULL, prev |-> NULL, exit_code |-> 0,
           freed |-> FALSE, used |-> FALSE]

\* the instruction stream of kernel_main; the stream that starts at the
\* entry point of thread t is named t
BOOT_STREAM == 0

\* The statics of process.c and scheduler.c as the loader leaves them.  k
\* is the state [threads, procs, ps, ss, cpu, hang, picked] the operators
\* below work on; picked lists the threads scheduler_switch_to was given.
ZeroSched ==
    [threads |-> [t \in 1 .. MaxThreads |-> NoThread],
     procs |-> [p \in 1 .. MaxProcs |-> NoProc],
     ps |-> [process_list_head |-> NULL, current_thread |-> NULL,
             idle_process |-> NULL, next_pid |-> 1, next_tid |-> 1],
     ss |-> [running |-> FALSE, initialized |-> FALSE, ready_queue_head |-> NULL,
             ready_queue_tail |-> NULL, ready_count |-> U32(0),
             stats |-> [total_switches |-> 0, total_ticks |-> 0, idle_ticks |-> 0]],
     cpu |-> BOOT_STREAM, hang |-> FALSE, picked |-> << >>]

thread_get_current(k) == k.ps.current_thread

process_get_current(k) ==
    IF k.ps.current_thread # NULL THEN k.threads[k.ps.current_thread].process ELSE NULL

\* ------------------------------------------------------------- scheduler
scheduler_add_thread(k, thread) ==
    IF thread = NULL THEN k
    ELSE IF k.threads[thread].state # TASK_STATE_READY THEN k
    ELSE IF k.ss.ready_queue_tail # NULL
    THEN [k EXCEPT !.threads[thread].next = NULL,
                   !.threads[thread].prev = k.ss.ready_queue_tail,
                   !.threads[k.ss.ready_queue_tail].next = thread,
                   !.ss.ready_queue_tail = thread,
                   !.ss.ready_count = Inc32(@)]
    ELSE [k EXCEPT !.threads[thread].next = NULL,
                   !.threads[thread].prev = NULL,
                   !.ss.ready_queue_head = thread,
                   !.ss.ready_queue_tail = thread,
                   !.ss.ready_count = Inc32(@)]

\* statement number at of scheduler_add_thread(thread), which passed the check
\* of the thread's state: thread->next = NULL; thread->prev = tail; the link
\* from the tail or the head; tail = thread; ready_count++
AddStatement(k, thread, at) ==
    IF at = 1 THEN [k EXCEPT !.threads[thread].next = NULL]
    ELSE IF at = 2 THEN [k EXCEPT !.threads[thread].prev = k.ss.ready_queue_tail]
    ELSE IF at = 3
    THEN IF k.ss.ready_queue_tail # NULL
         THEN [k EXCEPT !.threads[k.ss.ready_queue_tail].next = thread]
         ELSE [k EXCEPT !.ss.ready_queue_head = thread]
    ELSE IF at = 4 THEN [k EXCEPT !.ss.ready_queue_tail = thread]
    ELSE [k EXCEPT !.ss.ready_count = Inc32(@)]

\* scheduler_remove_thread, its three steps in order
RemovePrev(k, thread) ==
    IF k.threads[thread].prev # NULL
    THEN [k EXCEPT !.threads[k.threads[thread].prev].next = k.threads[thread].next]
    ELSE [k EXCEPT !.ss.ready_queue_head = k.threads[thread].next]

RemoveNext(k, thread) ==
    IF k.threads[thread].next # NULL
    THEN [k EXCEPT !.threads[k.threads[thread].next].prev = k.threads[thread].prev]
    ELSE [k EXCEPT !.ss.ready_queue_tail = k.threads[thread].prev]

RemoveDone(k, thread) ==
    [k EXCEPT !.threads[thread].next = NULL,
              !.threads[thread].prev = NULL,
              !.ss.ready_count = Dec32(@)]

scheduler_remove_thread(k, thread) ==
    IF thread = NULL THEN k
    ELSE RemoveDone(RemoveNext(RemovePrev(k, thread), thread), thread)

\* the result is [k, next]
scheduler_pick_next(k) ==
    IF k.ss.ready_queue_head = NULL THEN [k |-> k, next |-> NULL]
    ELSE [k |-> scheduler_remove_thread(k, k.ss.ready_queue_head),
          next |-> k.ss.ready_queue_head]

\* the CPU leaves the stream it executes in old's context and goes on with
\* the stream saved in new's context
switch_context(k, old, new) ==
    [k EXCEPT !.threads[old].context = k.cpu, !.cpu = k.threads[new].context]

\* scheduler_switch_to: current goes back to the ready queue if it was running
SwitchOut(k, current) ==
    IF current = NULL THEN k
    ELSE IF k.threads[current].state # TASK_STATE_RUNNING THEN k
    ELSE scheduler_add_thread([k EXCEPT !.threads[current].state = TASK_STATE_READY],
                              current)

\* scheduler_switch_to: next becomes the current thread
SwitchIn(k, current, next) ==
    IF current = NULL
    THEN [k EXCEPT !.threads[next].state = TASK_STATE_RUNNING,
                   !.ps.current_thread = next,
                   !.threads[next].time_slice = SCHED_DEFAULT_TIME_SLICE,
                   !.ss.stats.total_switches = @ + 1]
    ELSE switch_context([k EXCEPT !.threads[next].state = TASK_STATE_RUNNING,
                                  !.ps.current_thread = next,
                                  !.threads[next].time_slice = SCHED_DEFAULT_TIME_SLICE,
                                  !.ss.stats.total_switches = @ + 1],
                        current, next)

scheduler_switch_to(k, next) ==
    IF next = NULL THEN k
    ELSE IF k.ps.current_thread = next
    THEN [k EXCEPT !.threads[next].state = TASK_STATE_RUNNING,
                   !.picked = Append(@, next)]
    ELSE SwitchIn(SwitchOut([k EXCEPT !.picked = Append(@, next)], k.ps.current_thread),
                  k.ps.current_thread, next)

\* scheduler_schedule after scheduler_pick_next returned r
ScheduleNext(r) ==
    IF r.next = NULL THEN r.k ELSE scheduler_switch_to(r.k, r.next)

scheduler_schedule(k) ==
    IF ~k.ss.running \/ ~k.ss.initialized THEN k
    ELSE ScheduleNext(scheduler_pick_next(k))

\* scheduler_tick once the slice of the current thread was decremented
TickExpired(k) ==
    IF k.threads[k.ps.current_thread].time_slice = 0 THEN scheduler_schedule(k) ELSE k

scheduler_tick(k) ==
    IF ~k.ss.running \/ ~k.ss.initialized THEN k
    ELSE IF k.ps.current_thread = NULL
    THEN scheduler_schedule([k EXCEPT !.ss.stats.total_ticks = @ + 1])
    ELSE TickExpired([k EXCEPT !.ss.stats.total_ticks = @ + 1,
                               !.threads[k.ps.current_thread].total_runtime = @ + 1,
                               !.threads[k.ps.current_thread].time_slice =
                                   IF @ > 0 THEN @ - 1 ELSE @])

scheduler_yield(k) ==
    IF ~k.ss.running THEN k
    ELSE IF k.ps.current_thread # NULL
    THEN scheduler_schedule([k EXCEPT !.threads[k.ps.current_thread].time_slice = 0])
    ELSE scheduler_schedule(k)

scheduler_start(k) ==
    IF ~k.ss.initialized THEN k
    ELSE scheduler_schedule([k EXCEPT !.ss.running = TRUE])

scheduler_init(k) ==
    [k EXCEPT !.ss = [running |-> FALSE, initialized |-> TRUE,
                      ready_queue_head |-> NULL, ready_queue_tail |-> NULL,
                      ready_count |-> U32(0),
                      stats |-> [total_switches |-> 0, total_ticks |-> 0,
                                 idle_ticks |-> 0]]]

\* --------------------------------------------------------------- process
\* the outcomes of the two kmalloc calls of thread_create
ThreadAllocs == {"ok", "no_tcb", "no_stack"}

\* thread_create: the new thread is put in front of proc's thread list
ThreadListed(k, proc, thread) ==
    IF k.procs[proc].thread_list # NULL
    THEN [k EXCEPT !.threads[thread].next = k.procs[proc].thread_list,
                   !.threads[thread].prev = NULL,
                   !.threads[k.procs[proc].thread_list].prev = thread,
                   !.procs[proc].thread_list = thread,
                   !.procs[proc].thread_count = @ + 1]
    ELSE [k EXCEPT !.threads[thread].next = NULL,
                   !.threads[thread].prev = NULL,
                   !.procs[proc].thread_list = thread,
                   !.procs[proc].thread_count = @ + 1]

\* thread_create up to its call of scheduler_add_thread: the new thread is
\* listed and ready
ThreadReady(k, proc, thread) ==
    [ThreadListed(k, proc, thread) EXCEPT !.threads[thread].state = TASK_STATE_READY]

\* thread_create once both allocations succeeded; thread is the new tid
ThreadLinked(k, proc, thread) ==
    scheduler_add_thread(ThreadReady(k, proc, thread), thread)

\* the control block of the new thread is filled in
ThreadNew(k, proc) ==
    [k EXCEPT !.ps.next_tid = @ + 1,
              !.threads[k.ps.next_tid] =
                  [state |-> TASK_STATE_NEW, process |-> proc,
                   next |-> NULL, prev |-> NULL,
                   time_slice |-> 10, total_runtime |-> 0,
                   context |-> k.ps.next_tid]]

\* the result is [k, ret]
thread_create(k, proc, alloc) ==
    IF proc = NULL \/ alloc = "no_tcb" THEN [k |-> k, ret |-> NULL]
    ELSE IF alloc = "no_stack"
    THEN [k |-> [k EXCEPT !.ps.next_tid = @ + 1], ret |-> NULL]
    ELSE [k |-> ThreadLinked(ThreadNew(k, proc), proc, k.ps.next_tid),
          ret |-> k.ps.next_tid]

\* process_create after thread_create returned r for the main thread
MainThread(r, proc) ==
    IF r.ret = NULL
    THEN [k |-> [r.k EXCEPT !.procs[proc].freed = TRUE], ret |-> NULL]
    ELSE [k |-> [r.k EXCEPT !.procs[proc].main_thread = r.ret], ret |-> proc]

\* process_create once the PCB proc is initialised and heads the list
ProcessListed(k, proc, has_entry, alloc) ==
    IF has_entry THEN MainThread(thread_create(k, proc, alloc), proc)
    ELSE [k |-> k, ret |-> proc]

\* process_create: the PCB proc is put in front of the process list
ProcessHeads(k, proc) ==
    IF k.ps.process_list_head # NULL
    THEN [k EXCEPT !.procs[k.ps.process_list_head].prev = proc,
                   !.ps.process_list_head = proc]
    ELSE [k EXCEPT !.ps.process_list_head = proc]

\* the result is [k, ret]; pcb tells whether kmalloc returned a PCB
process_create(k, has_entry, pcb, alloc) ==
    IF ~pcb THEN [k |-> k, ret |-> NULL]
    ELSE ProcessListed(
             ProcessHeads(
                 [k EXCEPT !.ps.next_pid = @ + 1,
                           !.procs[k.ps.next_pid] =
                               [main_thread |-> NULL, thread_list |-> NULL,
                                thread_count |-> 0, parent |-> process_get_current(k),
                                next |-> k.ps.process_list_head, prev |-> NULL,
                                exit_code |-> 0, freed |-> FALSE, used |-> TRUE]],
                 k.ps.next_pid),
             k.ps.next_pid, has_entry, alloc)

thread_exit(k) ==
    IF k.ps.current_thread = NULL THEN k
    ELSE [k EXCEPT !.threads[k.ps.current_thread].state = TASK_STATE_ZOMBIE]

\* the loop of process_exit from thread t on; seen are the threads it has
\* been at, and coming back to one of them it never ends
RECURSIVE ZombieLoop(_, _, _)
ZombieLoop(k, t, seen) ==
    IF t = NULL THEN k
    ELSE IF t \in seen THEN [k EXCEPT !.hang = TRUE]
    ELSE ZombieLoop([k EXCEPT !.threads[t].state = TASK_STATE_ZOMBIE],
                    k.threads[t].next, seen \cup {t})

process_exit(k, exit_code) ==
    IF process_get_current(k) = NULL THEN k
    ELSE ZombieLoop([k EXCEPT !.procs[process_get_current(k)].exit_code = exit_code],
                    k.procs[process_get_current(k)].thread_list, {})

\* process_init after process_create returned r for the idle process
IdleCreated(r) == [r.k EXCEPT !.ps.idle_process = r.ret]

process_init(k) ==
    IdleCreated(process_create(
        [k EXCEPT !.ps.process_list_head = NULL, !.ps.current_thread = NULL,
                  !.ps.next_pid = 1, !.ps.next_tid = 1],
        TRUE, TRUE, "ok"))

\* ------------------------------------------- system calls, timer and TSS
\* the statically initialised state: syscall_state = {0}, timer_state = {0},
\* kernel_tss = {0}
ZeroSyscall ==
    [initialized |-> FALSE, total_syscalls |-> 0,
     syscall_counts |-> [n \in 0 .. SYSCALL_MAX |-> 0]]
ZeroTimer == [ticks |-> 0, frequency |-> 0, initialized |-> FALSE, callback |-> FALSE]
ZeroTss == [rsp0 |-> 0]
NoSysCall == [num |-> -1, arg1 |-> 0, arg2 |-> 0, arg3 |-> 0, ret |-> 0,
              returned |-> FALSE, con |-> << >>]
NoIrq == [vector |-> -1, count |-> 0, timers |-> 0, io |-> << >>]
NoPc == [op |-> "none", thread |-> NULL, at |-> 0, by |-> 0]
NoSleep == [milliseconds |-> 0, start |-> 0, target |-> 0, at |-> "none"]

\* a message of the kernel itself on the console; its text is not modelled
LOG == 256

\* console_print of a kernel message
ConsoleLog(z) == [z EXCEPT !.con = Append(@, LOG)]

\* console_print of the string that starts with the bytes str: console_putchar
\* for every byte up to the first zero byte
RECURSIVE console_print(_, _)
console_print(con, str) ==
    IF str = << >> \/ Head(str) = 0 THEN con
    ELSE console_print(Append(con, Head(str)), Tail(str))

\* timer_get_milliseconds
timer_get_milliseconds(tm) ==
    IF tm.frequency = 0 THEN 0 ELSE (tm.ticks * 1000) \div tm.frequency

\* timer_sleep: the loop halts the CPU until the tick counter has advanced,
\* which nothing does while the call is running
timer_sleep(z, milliseconds) ==
    IF ~z.tm.initialized \/ z.tm.frequency = 0 THEN z
    ELSE IF timer_get_milliseconds(z.tm) < timer_get_milliseconds(z.tm) + milliseconds
    THEN [z EXCEPT !.k.hang = TRUE]
    ELSE z

\* the handlers of the system calls; z = [k, sys, con, tm] is the kernel
\* state and the result is [z, ret]
sys_exit(z, status) ==
    [z |-> [ConsoleLog(z) EXCEPT !.k = process_exit(z.k, status)], ret |-> 0]

\* the loop of sys_write: bytes are the count bytes at buf
RECURSIVE WriteLoop(_, _)
WriteLoop(con, bytes) ==
    IF bytes = << >> THEN con
    ELSE WriteLoop(console_print(con, << Head(bytes), 0 >>), Tail(bytes))

sys_write(z, fd, buf, count, bytes) ==
    IF fd # STDOUT_FILENO /\ fd # STDERR_FILENO THEN [z |-> z, ret |-> -EBADF]
    ELSE IF buf = NULL THEN [z |-> z, ret |-> -EINVAL]
    ELSE [z |-> [z EXCEPT !.con = WriteLoop(@, SubSeq(bytes, 1, count))],
          ret |-> count]

sys_read(z, fd, buf) ==
    IF fd # STDIN_FILENO THEN [z |-> z, ret |-> -EBADF]
    ELSE IF buf = NULL THEN [z |-> z, ret |-> -EINVAL]
    ELSE [z |-> z, ret |-> -ENOSYS]

sys_getpid(z) ==
    [z |-> z,
     ret |-> IF process_get_current(z.k) # NULL THEN process_get_current(z.k) ELSE -1]

sys_yield(z) == [z |-> [z EXCEPT !.k = scheduler_yield(z.k)], ret |-> 0]

\* the conversion to uint32_t leaves the values of the model, all below 2^31,
\* as they are
sys_sleep(z, milliseconds) == [z |-> timer_sleep(z, milliseconds), ret |-> 0]

sys_unimplemented(z) == [z |-> ConsoleLog(z), ret |-> -ENOSYS]

\* syscall_table[n] called with the arguments
SyscallTable(z, n, arg1, arg2, arg3, bytes) ==
    IF n = SYSCALL_EXIT THEN sys_exit(z, arg1)
    ELSE IF n = SYSCALL_WRITE THEN sys_write(z, arg1, arg2, arg3, bytes)
    ELSE IF n = SYSCALL_READ THEN sys_read(z, arg1, arg2)
    ELSE IF n = SYSCALL_GETPID THEN sys_getpid(z)
    ELSE IF n = SYSCALL_SLEEP THEN sys_sleep(z, arg1)
    ELSE IF n = SYSCALL_YIELD THEN sys_yield(z)
    ELSE sys_unimplemented(z)

\* syscall_handler; bytes are the bytes of user memory at arg2
syscall_handler(z, n, arg1, arg2, arg3, bytes) ==
    IF ~z.sys.initialized THEN [z |-> z, ret |-> -ENOSYS]
    ELSE IF n > SYSCALL_MAX
    THEN [z |-> ConsoleLog([z EXCEPT !.sys.total_syscalls = @ + 1]), ret |-> -EINVAL]
    ELSE SyscallTable([z EXCEPT !.sys.total_syscalls = @ + 1,
                                !.sys.syscall_counts[n] = @ + 1],
                      n, arg1, arg2, arg3, bytes)

syscall_init(sys) ==
    [sys EXCEPT !.total_syscalls = 0,
                !.syscall_counts = [n \in 0 .. SYSCALL_MAX |-> 0],
                !.initialized = TRUE]

\* timer_set_frequency: the PIT is programmed when the frequency is valid
timer_set_frequency(tm, frequency) ==
    IF frequency = 0 \/ frequency > PIT_BASE_FREQUENCY THEN tm
    ELSE [tm EXCEPT !.frequency = frequency]

timer_init(tm, frequency) ==
    [timer_set_frequency([tm EXCEPT !.ticks = 0, !.frequency = 0, !.callback = FALSE],
                         IF frequency = 0 THEN TIMER_FREQ_1000HZ ELSE frequency)
        EXCEPT !.initialized = TRUE]

timer_register_callback(tm, callback) == [tm EXCEPT !.callback = callback]

\* timer_irq_handler after the tick counter was incremented: scheduler_tick,
\* then the callback if one is registered
TimerTicked(z) ==
    IF z.tm.callback
    THEN [z EXCEPT !.k = scheduler_tick(z.k),
                   !.io = @ \o << "scheduler_tick", "callback" >>]
    ELSE [z EXCEPT !.k = scheduler_tick(z.k), !.io = Append(@, "scheduler_tick")]

timer_irq_handler(z) ==
    IF ~z.tm.initialized THEN z
    ELSE TimerTicked([z EXCEPT !.tm.ticks = @ + 1])

\* irq_handler after the EOI: the switch on the vector
IrqDispatch(z, int_no) ==
    IF int_no = IRQ_TIMER THEN z ELSE ConsoleLog(z)

\* irq_handler: z.io lists the EOI writes to the PICs and the calls of the
\* timer path
irq_handler(z, int_no) ==
    IrqDispatch(
        IF int_no >= 40
        THEN [z EXCEPT !.io = @ \o << "eoi_slave", "eoi_master" >>]
        ELSE [z EXCEPT !.io = Append(@, "eoi_master")],
        int_no)

tss_set_kernel_stack(t, stack) == [t EXCEPT !.rsp0 = stack]

\* tss_init leaves rsp0 as it is
tss_init(t) == t

KernUnused ==
    /\ syscall_state = ZeroSyscall
    /\ sys_call = NoSysCall
    /\ console = << >>
    /\ timer_state = ZeroTimer
    /\ irq_log = NoIrq
    /\ tss = ZeroTss
    /\ pc = NoPc
    /\ sleep = NoSleep

\* the scheduler variables of a kernel that has not come to process_init
NoSchedCall == [op |-> "none", arg |-> NULL, ret |-> NULL]
SchedUnused ==
    /\ threads = ZeroSched.threads
    /\ procs = ZeroSched.procs
    /\ proc_state = ZeroSched.ps
    /\ sched_state = ZeroSched.ss
    /\ cpu = BOOT_STREAM
    /\ hang = FALSE
    /\ sched_call = NoSchedCall
    /\ sel = << >>
    /\ out = << >>
    /\ sched_ops = 0
    /\ KernUnused

\* ------------------------------------------------------------ boot records
\* S1 of the specification: one conventional entry covering pages 256..4095
MapS1 == << Descriptor(MEMORY_TYPE_AVAILABLE, 256, 3840) >>
\* firmware-reserved low 2 MiB, then a small conventional region
MapSmall == << Descriptor(MEMORY_TYPE_RESERVED, 0, 512),
               Descriptor(MEMORY_TYPE_AVAILABLE, 512, MaxMapPages) >>
\* conventional memory from page 0 over the low 1 MiB and the kernel range
MapLow == << Descriptor(MEMORY_TYPE_AVAILABLE, 0, 512 + MaxMapPages) >>
\* a conventional region followed by a reserved one
MapHole == << Descriptor(MEMORY_TYPE_AVAILABLE, 256, 256 + MaxMapPages),
              Descriptor(MEMORY_TYPE_RESERVED, 512 + MaxMapPages, 2) >>

BootInfos == {NoBootInfo} \cup
             {[memory_map |-> m] : m \in {MapS1, MapSmall, MapLow, MapHole}}

\* ---------------------------------------------------------------- PMM specs
NoHeapCall == [op |-> "none", arg |-> NULL, n |-> U64(0), ovf |-> FALSE, ret |-> NULL]
NoVmmCall == [op |-> "none", v |-> 0, p |-> 0, ok |-> FALSE, ev |-> << >>]

PmmS == [bm |-> page_bitmap, st |-> pmm_state]

PmmInitWith(bi) ==
    /\ boot_info = bi
    /\ page_bitmap = pmm_init(bi).bm
    /\ pmm_state = pmm_init(bi).st
    /\ pmm_call = [op |-> "pmm_init", arg |-> 0, count |-> 0, ret |-> 0]
    /\ held = {}
    /\ returned = {}
    /\ roundtrip = TRUE
    /\ hist = << >>
    /\ ram = << >>
    /\ vmm_state = [pml4_physical |-> 0, mapped_pages |-> 0,
                    kernel_pages |-> 0, page_tables_allocated |-> 0]
    /\ heap_state = ZeroHeap
    /\ fault = FALSE
    /\ heap_call = NoHeapCall
    /\ live = {}
    /\ freed = {}
    /\ heap_ops = 0
    /\ ram_present = FALSE
    /\ vmm_call = NoVmmCall
    /\ vmap = << >>
    /\ vmm_ops = 0
    /\ SchedUnused

\* the effect of one PMM call on the model state
PmmStep(op, arg, count, s2, ret, rt) ==
    /\ page_bitmap' = s2.bm
    /\ pmm_state' = s2.st
    /\ pmm_call' = [op |-> op, arg |-> arg, count |-> count, ret |-> ret]
    /\ held' = (held \cup (page_bitmap \ s2.bm)) \ (s2.bm \ page_bitmap)
    /\ returned' = IF op \in {"pmm_alloc_frame", "pmm_alloc_frames"}
                   THEN returned \cup {ret} ELSE returned
    /\ roundtrip' = rt
    /\ UNCHANGED boot_info
    /\ UNCHANGED <<heap_vars, vmm_gvars, sched_vars, kern_vars>>

\* --- clients that free only what the allocator returned
AllocFrame ==
    /\ Cardinality(held) < MaxLive
    /\ LET r == pmm_alloc_frame(PmmS)
       IN PmmStep("pmm_alloc_frame", 0, 0, r.s, r.ret, roundtrip)
    /\ UNCHANGED hist

AllocFrames ==
    \E count \in 1 .. MaxCount :
        /\ Cardinality(held) + count <= MaxLive
        /\ LET r == pmm_alloc_frames(PmmS, count)
           IN PmmStep("pmm_alloc_frames", 0, count, r.s, r.ret, FALSE)
        /\ UNCHANGED hist

FreeReturned ==
    \E addr \in returned :
        /\ PmmStep("pmm_free_frame", addr, 0, pmm_free_frame(PmmS, addr), 0,
                   roundtrip /\ ADDR_TO_PAGE(addr) \in held)
        /\ UNCHANGED hist

InitPmm == \E bi \in BootInfos : PmmInitWith(bi)
NextPmm == AllocFrame \/ AllocFrames \/ FreeReturned
SpecPmm == InitPmm /\ [][NextPmm]_vars

\* --- the S1 scenario: pmm_init on MapS1, then allocations and a free
S1Frees == Cardinality({i \in 1 .. Len(hist) : hist[i].op = "pmm_free_frame"})

S1Alloc ==
    /\ Len(hist) < MaxS1Ops
    /\ LET r == pmm_alloc_frame(PmmS)
       IN /\ PmmStep("pmm_alloc_frame", 0, 0, r.s, r.ret, roundtrip)
          /\ hist' = Append(hist, [op |-> "pmm_alloc_frame", arg |-> 0, ret |-> r.ret])

S1Free ==
    \E page \in held \cup {260} :
        /\ Len(hist) < MaxS1Ops
        /\ S1Frees < MaxS1Frees
        /\ PmmStep("pmm_free_frame", PAGE_TO_ADDR(page), 0,
                   pmm_free_frame(PmmS, PAGE_TO_ADDR(page)), 0, roundtrip)
        /\ hist' = Append(hist, [op |-> "pmm_free_frame",
                                 arg |-> PAGE_TO_ADDR(page), ret |-> 0])

InitPmmS1 == PmmInitWith([memory_map |-> MapS1])
NextPmmS1 == S1Alloc \/ S1Free
SpecPmmS1 == InitPmmS1 /\ [][NextPmmS1]_vars

\* --- callers that pass arbitrary arguments to every public operation
\* PFN 0, an unaligned address in PFN 512 and an address beyond every map
AnyAddrs == {0, 2099200, 33554432}

AnyAllocFrame ==
    /\ Cardinality(held) < MaxLive
    /\ LET r == pmm_alloc_frame(PmmS)
       IN PmmStep("pmm_alloc_frame", 0, 0, r.s, r.ret, FALSE)
    /\ UNCHANGED hist

AnyAllocFrames ==
    \E count \in 0 .. MaxCount :
        /\ Cardinality(held) + count <= MaxLive
        /\ LET r == pmm_alloc_frames(PmmS, count)
           IN PmmStep("pmm_alloc_frames", 0, count, r.s, r.ret, FALSE)
        /\ UNCHANGED hist

AnyFreeFrame ==
    \E addr \in AnyAddrs :
        /\ PmmStep("pmm_free_frame", addr, 0, pmm_free_frame(PmmS, addr), 0, FALSE)
        /\ UNCHANGED hist

AnyFreeFrames ==
    \E addr \in AnyAddrs, count \in 0 .. MaxCount :
        /\ PmmStep("pmm_free_frames", addr, count,
                   pmm_free_frames(PmmS, addr, count), 0, FALSE)
        /\ UNCHANGED hist

AnyMarkUsed ==
    \E addr \in AnyAddrs :
        /\ PmmStep("pmm_mark_used", addr, 0, pmm_mark_used(PmmS, addr), 0, FALSE)
        /\ UNCHANGED hist

AnyMarkUsedRange ==
    \E addr \in AnyAddrs, count \in 0 .. MaxCount :
        /\ PmmStep("pmm_mark_used_range", addr, count,
                   pmm_mark_used_range(PmmS, addr, count), 0, FALSE)
        /\ UNCHANGED hist

NextPmmAny == \/ AnyAllocFrame \/ AnyAllocFrames \/ AnyFreeFrame
              \/ AnyFreeFrames \/ AnyMarkUsed \/ AnyMarkUsedRange
InitPmmAny ==
    \E m \in {MapSmall, MapLow, MapHole} : PmmInitWith([memory_map |-> m])
SpecPmmAny == InitPmmAny /\ [][NextPmmAny]_vars

\* ---------------------------------------------------------------- heap spec
\* firmware-reserved low 2 MiB, then the frames the heap can take
MapHeap == << Descriptor(MEMORY_TYPE_RESERVED, 0, 512),
              Descriptor(MEMORY_TYPE_AVAILABLE, 512, 4 + MaxHeapFrames) >>

Machine == [mem |-> ram, bm |-> page_bitmap, st |-> pmm_state, vs |-> vmm_state,
            hs |-> heap_state, fault |-> fault]

\* never-written leaf entries read as not present, or all as present
Oracles == {{}, 0 .. (MaxHeapFrames + 1)}
Garbage == IF ram_present THEN 0 .. (MaxHeapFrames + 1) ELSE {}

\* a request that needs one page more than the PMM has left
ExhaustSize == U64((MaxHeapFrames + 1) * PAGE_SIZE - 40)

\* 8 bytes, more than is left, and 2^64 - 1
MallocSizes == {U64(8), ExhaustSize, U64Neg(1)}
\* 2 * (2^63 + 4) = 2^64 + 8
CallocArgs == {[num |-> 2, size |-> <<4, 0, 0, 32768>>]}
ReallocSizes == {U64(0), U64(64)}
\* two pages, and one page more than the PMM has left
ExpandSizes == {U64(8192), U64((MaxHeapFrames + 1) * PAGE_SIZE)}

\* kernel_main: pmm_init, vmm_init
BootVmm(bi) ==
    vmm_init([mem |-> << >>, bm |-> pmm_init(bi).bm, st |-> pmm_init(bi).st,
              vs |-> [pml4_physical |-> 0, mapped_pages |-> 0,
                      kernel_pages |-> 0, page_tables_allocated |-> 0],
              hs |-> ZeroHeap, fault |-> FALSE])

\* kernel_main: pmm_init, vmm_init, kheap_init
Boot(bi, G) == kheap_init(BootVmm(bi), G)

\* the pages kheap_init maps: page i of the heap on the i-th frame the PMM
\* hands out, s being the PMM state before that allocation
RECURSIVE InitialMappings(_, _)
InitialMappings(s, i) ==
    IF i = HEAP_INITIAL_SIZE \div PAGE_SIZE \/ pmm_alloc_frame(s).ret = 0 THEN << >>
    ELSE ((HEAP_START_ADDR + i * PAGE_SIZE) :> pmm_alloc_frame(s).ret)
             @@ InitialMappings(pmm_alloc_frame(s).s, i + 1)

\* the effect of one heap call on the model state
HeapStep(op, arg, n, ovf, m2, ret, live2, freed2) ==
    /\ ram' = m2.mem
    /\ page_bitmap' = m2.bm
    /\ pmm_state' = m2.st
    /\ vmm_state' = m2.vs
    /\ heap_state' = m2.hs
    /\ fault' = m2.fault
    /\ heap_call' = [op |-> op, arg |-> arg, n |-> n, ovf |-> ovf, ret |-> ret]
    /\ live' = live2
    /\ freed' = freed2
    /\ heap_ops' = heap_ops + 1
    /\ UNCHANGED ram_present
    /\ UNCHANGED <<vmm_gvars, sched_vars, kern_vars>>
    /\ UNCHANGED <<boot_info, pmm_call, held, returned, roundtrip, hist>>

CanCall == ~fault /\ heap_ops < MaxHeapOps
CanAlloc == CanCall /\ N(heap_state.stats.num_allocations) < MaxAllocs

\* a call of kmalloc or kcalloc, whose result is k
AllocStep(op, n, ovf, k) ==
    HeapStep(op, NULL, n, ovf, k.m, k.ret,
             live \cup ({k.ret} \ {NULL}),
             IF k.ret # NULL THEN {} ELSE freed)

Kmalloc ==
    \E n \in MallocSizes :
        /\ CanAlloc
        /\ AllocStep("kmalloc", n, FALSE, kmalloc(Machine, n, Garbage))

Kcalloc ==
    \E a \in CallocArgs :
        /\ CanAlloc
        /\ AllocStep("kcalloc", U64Times(a.num, a.size), TimesOverflows(a.num, a.size),
                     kcalloc(Machine, a.num, a.size, Garbage))

\* a call of krealloc(p, n), whose result is k
ReallocStep(p, n, k) ==
    HeapStep("krealloc", p, n, FALSE, k.m, k.ret,
             IF k.ret # NULL THEN (live \ {p}) \cup {k.ret}
             ELSE IF n = U64(0) THEN live \ {p}
             ELSE live,
             IF k.ret # NULL /\ k.ret # p THEN {p} \ {NULL}
             ELSE IF n = U64(0) /\ p # NULL THEN freed \cup {p}
             ELSE freed)

Krealloc ==
    \E p \in live \cup {NULL}, n \in ReallocSizes :
        /\ CanAlloc
        /\ ReallocStep(p, n, krealloc(Machine, p, n, Garbage))

Kfree ==
    \E p \in live \cup freed \cup {NULL} :
        /\ CanCall
        /\ HeapStep("kfree", p, U64(0), FALSE, kfree(Machine, p), NULL,
                    live \ {p},
                    IF p \in live THEN freed \cup {p} ELSE freed)

KheapExpand ==
    \E size \in ExpandSizes :
        /\ CanCall
        /\ HeapStep("kheap_expand", NULL, size, FALSE,
                    kheap_expand(Machine, size, Garbage), NULL, live, freed)

\* the state kernel_main leaves: b is the machine after the three inits
InitHeapWith(b, G) ==
    /\ boot_info = [memory_map |-> MapHeap]
    /\ page_bitmap = b.bm
    /\ pmm_state = b.st
    /\ pmm_call = [op |-> "pmm_init", arg |-> 0, count |-> 0, ret |-> 0]
    /\ held = {}
    /\ returned = {}
    /\ roundtrip = TRUE
    /\ hist = << >>
    /\ ram = b.mem
    /\ vmm_state = b.vs
    /\ heap_state = b.hs
    /\ fault = b.fault
    /\ heap_call = [NoHeapCall EXCEPT !.op = "kheap_init"]
    /\ live = {}
    /\ freed = {}
    /\ heap_ops = 0
    /\ ram_present = (G # {})
    /\ vmm_call = NoVmmCall
    /\ vmap = InitialMappings([bm |-> BootVmm([memory_map |-> MapHeap]).bm,
                                st |-> BootVmm([memory_map |-> MapHeap]).st], 0)
    /\ vmm_ops = 0
    /\ SchedUnused

InitHeap == \E G \in Oracles : InitHeapWith(Boot([memory_map |-> MapHeap], G), G)

NextHeap == Kmalloc \/ Kcalloc \/ Krealloc \/ Kfree \/ KheapExpand
SpecHeap == InitHeap /\ [][NextHeap]_vars

\* ---------------------------------------------------------- heap block list
\* the blocks reached from first_block by next pointers, at most k of them
RECURSIVE BlocksFrom(_, _, _)
BlocksFrom(mem, b, k) ==
    IF b = NULL \/ b = WILD \/ k = 0 THEN << >>
    ELSE IF ~IsHeader(mem, b) THEN << b >>
    ELSE << b >> \o BlocksFrom(mem, ToAddr(BNext(mem, b)), k - 1)

MaxBlocks == 2 * MaxAllocs + MaxHeapFrames + 2
Blocks == BlocksFrom(ram, heap_state.first_block, MaxBlocks)

\* ------------------------------------------------------------- PMM claims
\* C1: every non-zero address pmm_alloc_frame returns is 4096-aligned, has
\* PFN >= 256, lies outside the kernel range PFN 256..511 and is not a frame
\* that is currently allocated, when clients free only returned addresses.
C1_AllocFrameSafe ==
    [][AllocFrame =>
        LET a == pmm_call'.ret
        IN a # 0 => /\ a % PAGE_SIZE = 0
                    /\ ADDR_TO_PAGE(a) >= RESERVED_PAGES
                    /\ ADDR_TO_PAGE(a) \notin KERNEL_START_PAGE .. (KERNEL_END_PAGE - 1)
                    /\ ADDR_TO_PAGE(a) \notin held]_vars

\* C2: once every frame obtained by pmm_alloc_frame has been freed exactly
\* once, the bitmap and the free count are those pmm_init left.
C2_RoundTrip ==
    (roundtrip /\ held = {}) =>
        /\ page_bitmap = pmm_init(boot_info).bm
        /\ pmm_state.free_pages = pmm_init(boot_info).st.free_pages

C2_Witness ==
    /\ roundtrip /\ held = {}
    /\ pmm_call.op = "pmm_free_frame"
    /\ Cardinality(returned \ {0}) >= 2

\* the first k calls of the scenario are all allocations
S1AllAllocs(k) == \A j \in 1 .. k : hist[j].op = "pmm_alloc_frame"

\* S1 with the given PFN for the first allocation: ten allocations return
\* first, first+1, ...; a free after them makes the next allocation return
\* the freed frame.
S1Run(first) ==
    /\ \A k \in 1 .. Min(Len(hist), 10) :
          S1AllAllocs(k) => hist[k].ret = PAGE_TO_ADDR(first + k - 1)
    /\ (Len(hist) >= 12 /\ S1AllAllocs(10) /\ hist[11].op = "pmm_free_frame"
          /\ hist[12].op = "pmm_alloc_frame") => hist[12].ret = hist[11].arg

\* C3 as stated: after pmm_init on pages 256..4095 ten allocations return
\* PFN 256..265, and after freeing PFN 260 the next one returns PFN 260.
C3_S1_From256 == S1Run(256)

\* C3 as the code has it: the ten allocations return PFN 512..521 (the
\* kernel range 256..511 is reserved); the freed frame is returned next.
C3_S1_From512 == S1Run(512)

C3_Witness ==
    /\ Len(hist) >= 12 /\ S1AllAllocs(10)
    /\ hist[11] = [op |-> "pmm_free_frame", arg |-> PAGE_TO_ADDR(260), ret |-> 0]
    /\ hist[12].op = "pmm_alloc_frame"

\* C4: PFN 0 is never handed out: its bitmap bit stays set and no
\* allocation selects page 0.
C4_Pfn0NeverFree == bitmap_test(page_bitmap, 0) /\ 0 \notin held

\* C5: free_pages + used_pages = total_pages, and neither counter wraps
\* below zero or exceeds total_pages.
C5_CountersAddUp ==
    /\ pmm_state.free_pages + pmm_state.used_pages = pmm_state.total_pages
    /\ pmm_state.free_pages >= 0 /\ pmm_state.free_pages <= pmm_state.total_pages
    /\ pmm_state.used_pages >= 0 /\ pmm_state.used_pages <= pmm_state.total_pages

\* ------------------------------------------------------------ heap claims
AllocOps == {"kmalloc", "kcalloc", "krealloc"}

\* C6: every non-null pointer kmalloc(n) returns for n > 0 is a multiple
\* of 8.
C6_KmallocAligned ==
    (heap_call.op = "kmalloc" /\ heap_call.n # U64(0) /\ heap_call.ret # NULL)
        => heap_call.ret % 8 = 0

\* the payload of the block p was returned for lies in [lo, hi)
PayloadIn(p, lo, hi) ==
    /\ IsHeader(ram, ptr_to_block(p))
    /\ IsSmall(BSize(ram, ptr_to_block(p)))
    /\ lo <= p /\ p + N(BSize(ram, ptr_to_block(p))) <= hi

\* the payload of p and the bytes [a, a + len) have no byte in common
PayloadApart(p, a, len) ==
    \/ p + N(BSize(ram, ptr_to_block(p))) <= a
    \/ a + len <= p
    \/ len = 0
    \/ BSize(ram, ptr_to_block(p)) = U64(0)

\* C7: a block returned for a request of n > 0 bytes has size >= n; the
\* payloads of the live blocks are pairwise disjoint, disjoint from every
\* block header of the list and contained in [heap_start, heap_end).
C7_SizeAndDisjoint ==
    ~fault =>
    /\ (heap_call.op \in AllocOps /\ heap_call.ret # NULL) =>
            /\ ~heap_call.ovf
            /\ IsHeader(ram, ptr_to_block(heap_call.ret))
            /\ U64Leq(heap_call.n, BSize(ram, ptr_to_block(heap_call.ret)))
    /\ \A p \in live :
            /\ PayloadIn(p, heap_state.heap_start, heap_state.heap_end)
            /\ \A q \in live \ {p} :
                   PayloadIn(q, heap_state.heap_start, heap_state.heap_end)
                       => PayloadApart(p, q, N(BSize(ram, ptr_to_block(q))))
            /\ \A i \in 1 .. Len(Blocks) : PayloadApart(p, Blocks[i], HEADER_SIZE)

\* every block of the list can be read as a header
ListReadable == \A i \in 1 .. Len(Blocks) : IsHeader(ram, Blocks[i])

\* C8: after every heap operation the list is a consistent doubly linked
\* list (first_block.prev is NULL, b.next.prev = b) and no free block has a
\* free successor.
C8_LinkedAndCoalesced ==
    ~fault =>
    /\ ListReadable
    /\ Len(Blocks) > 0 => BPrev(ram, Blocks[1]) = U64(NULL)
    /\ \A i \in 1 .. Len(Blocks) - 1 :
            /\ BPrev(ram, Blocks[i + 1]) = U64(Blocks[i])
            /\ ~(~IsUsed(ram, Blocks[i]) /\ ~IsUsed(ram, Blocks[i + 1]))

RECURSIVE SumSizes(_)
SumSizes(bs) ==
    IF bs = << >> THEN U64(0) ELSE U64Add(BSize(ram, Head(bs)), SumSizes(Tail(bs)))

\* C9: after every heap operation the blocks are contiguous and ordered by
\* address, the last one ends at heap_end, and the sizes of all blocks add
\* up to stats.total_size - stats.num_blocks * HEADER_SIZE.
C9_ContiguousAndSummed ==
    ~fault =>
    /\ ListReadable
    /\ \A i \in 1 .. Len(Blocks) - 1 :
            U64(Blocks[i + 1]) = U64Add(U64(Blocks[i] + HEADER_SIZE), BSize(ram, Blocks[i]))
    /\ Len(Blocks) > 0 =>
            U64(heap_state.heap_end) =
                U64Add(U64(Blocks[Len(Blocks)] + HEADER_SIZE), BSize(ram, Blocks[Len(Blocks)]))
    /\ SumSizes(Blocks) =
            U64Sub(heap_state.stats.total_size,
                   U64Times(N(heap_state.stats.num_blocks), U64(HEADER_SIZE)))

\* C10: a second kfree(p) of a pointer freed with no allocation in between
\* changes neither the block list nor any heap statistic.
C10_DoubleFreeIgnored ==
    [][(heap_call'.op = "kfree" /\ heap_call'.arg \in freed /\ heap_ops' = heap_ops + 1)
          => (ram' = ram /\ heap_state' = heap_state)]_vars

\* --------------------------------------------------- kmalloc / kfree only
\* 16 and 32 bytes, more than the initial heap holds, and 2^64 - 1
MfSizes == {U64(16), U64(32), U64(HEAP_INITIAL_SIZE), U64Neg(1)}

MfCanCall == ~fault /\ heap_ops < MaxMfOps

MfMalloc ==
    \E n \in MfSizes :
        /\ MfCanCall
        /\ Cardinality(live) < MaxHeld
        /\ AllocStep("kmalloc", n, FALSE, kmalloc(Machine, n, Garbage))

\* kfree of a pointer kmalloc returned and that was not freed since
MfFree ==
    \E p \in live :
        /\ MfCanCall
        /\ HeapStep("kfree", p, U64(0), FALSE, kfree(Machine, p), NULL,
                    live \ {p}, freed \cup {p})

NextMallocFree == MfMalloc \/ MfFree
SpecMallocFree == InitHeap /\ [][NextMallocFree]_vars

\* the list is one free block that spans the heap
OneFreeBlock ==
    /\ Len(Blocks) = 1
    /\ IsHeader(ram, Blocks[1])
    /\ ~IsUsed(ram, Blocks[1])
    /\ BNext(ram, Blocks[1]) = U64(NULL)
    /\ BSize(ram, Blocks[1]) =
           U64(heap_state.heap_end - heap_state.heap_start - HEADER_SIZE)

\* a = kmalloc(32), b = kmalloc(32), c = kmalloc(32), kfree(b) were the
\* four calls made so far
AfterABCFreeB ==
    /\ heap_ops = 4 /\ heap_call.op = "kfree"
    /\ Cardinality(live) = 2 /\ Cardinality(freed) = 1
    /\ \A p \in live \cup freed : BSize(ram, ptr_to_block(p)) = U64(32)
    /\ \E a \in live, c \in live : a < heap_call.arg /\ heap_call.arg < c

\* C11: once every pointer kmalloc returned has been freed, the heap is one
\* free block of size heap_size - HEADER_SIZE; and after a, b, c =
\* kmalloc(32) and kfree(b), kmalloc(16) returns b.
C11_FreeAllRestores ==
    [][/\ (~fault' /\ live' = {}) => OneFreeBlock'
       /\ (AfterABCFreeB /\ heap_call'.op = "kmalloc" /\ heap_call'.n = U64(16))
              => heap_call'.ret = heap_call.arg]_vars

\* ------------------------------------------------------------- VMM spec
\* pages of the bootstrap region (0x1000, the heap base 0x200000), the
\* first pages above it (0x1000000, 0x1001000) and the first page of the
\* second GiB
VmmPages == {4096, HEAP_START_ADDR, 16777216, 16781312, 1073741824}
VmmFrames == {20480, 3145728}
\* the flag set without PTE_PRESENT, which vmm_map_page adds
VmmFlags == {PTE_WRITE}
\* vmm_map_range / vmm_unmap_range over two pages from 0x1000000
VmmRanges == {[v |-> 16777216, size |-> 2 * PAGE_SIZE]}

\* the pages whose leaf entry the call stored
Stored(ev) == {ev[i].page : i \in {j \in 1 .. Len(ev) : ev[j].ev = "pte"}}

\* the effect of one VMM call, whose result is k, on the model state
VmmStep(op, v, p, k, vmap2) ==
    /\ ram' = k.m.mem
    /\ page_bitmap' = k.m.bm
    /\ pmm_state' = k.m.st
    /\ vmm_state' = k.m.vs
    /\ heap_state' = k.m.hs
    /\ fault' = k.m.fault
    /\ vmm_call' = [op |-> op, v |-> v, p |-> p, ok |-> k.ok, ev |-> k.ev]
    /\ vmap' = vmap2
    /\ vmm_ops' = vmm_ops + 1
    /\ UNCHANGED <<heap_call, live, freed, heap_ops, ram_present>>
    /\ UNCHANGED <<sched_vars, kern_vars>>
    /\ UNCHANGED <<boot_info, pmm_call, held, returned, roundtrip, hist>>

VmmCanCall == ~fault /\ vmm_ops < MaxVmmOps

\* vmap with the pages of S taken out
Without(S) == [x \in DOMAIN vmap \ S |-> vmap[x]]

\* vmap after the pages of S were mapped, v on p, v + 4096 on p + 4096, ...
MappedFrom(S, v, p) == [x \in S |-> p + (x - v)] @@ vmap

VmmMapPage ==
    \E v \in VmmPages, p \in VmmFrames, f \in VmmFlags :
        /\ VmmCanCall
        /\ VmmStep("vmm_map_page", v, p, vmm_map_page(Machine, v, p, f, ram_present),
                   MappedFrom(Stored(vmm_map_page(Machine, v, p, f, ram_present).ev), v, p))

VmmUnmapPage ==
    \E v \in VmmPages :
        /\ VmmCanCall
        /\ VmmStep("vmm_unmap_page", v, 0, vmm_unmap_page(Machine, v, ram_present),
                   Without(Stored(vmm_unmap_page(Machine, v, ram_present).ev)))

VmmMapRange ==
    \E r \in VmmRanges, p \in VmmFrames :
        /\ VmmCanCall
        /\ VmmStep("vmm_map_range", r.v, p,
                   vmm_map_range(Machine, r.v, p, r.size, PTE_KERNEL_FLAGS, ram_present),
                   MappedFrom(Stored(vmm_map_range(Machine, r.v, p, r.size,
                                                   PTE_KERNEL_FLAGS, ram_present).ev),
                              r.v, p))

VmmUnmapRange ==
    \E r \in VmmRanges :
        /\ VmmCanCall
        /\ VmmStep("vmm_unmap_range", r.v, 0,
                   vmm_unmap_range(Machine, r.v, r.size, ram_present),
                   Without(Stored(vmm_unmap_range(Machine, r.v, r.size, ram_present).ev)))

NextVmm == VmmMapPage \/ VmmUnmapPage \/ VmmMapRange \/ VmmUnmapRange
SpecVmm == InitHeap /\ [][NextVmm]_vars

\* ------------------------------------------------------------ VMM claims
\* C12: while a page v that vmm_map_page mapped on frame p is neither
\* remapped nor unmapped, vmm_get_physical(v) = p; and after a successful
\* vmm_unmap_page(v), vmm_get_physical(v) = 0.
C12_MapThenGetPhysical ==
    ~fault =>
    /\ \A v \in DOMAIN vmap :
           ~GetPhysicalFaults(Machine, v, ram_present)
               => vmm_get_physical(Machine, v, ram_present) = U64(vmap[v])
    /\ (vmm_call.op = "vmm_unmap_page" /\ vmm_call.ok)
           => vmm_get_physical(Machine, vmm_call.v, ram_present) = U64(0)

\* addresses of the bootstrap region: 0x0, 0x1000, 0x200000 and 0xFFF000
BootstrapSamples == {0, 4096, HEAP_START_ADDR, 16773120}

\* C13: on the page tables vmm_init leaves, vmm_get_physical(a) = a for
\* the addresses a below 0x1000000, whatever physical memory holds, and
\* vmm_get_physical(0x1000000) = 0.
C13_BootstrapIdentity ==
    /\ \A a \in BootstrapSamples :
           vmm_get_physical(BootVmm(boot_info), a, ram_present) = U64(a)
    /\ vmm_get_physical(BootVmm(boot_info), 16777216, ram_present) = U64(0)

\* the 8 bytes at a hold a value after the step that they did not hold before
StoredAt(a) ==
    /\ a # NULL
    /\ Written(ram', a, 8)
    /\ ~Written(ram, a, 8) \/ Load64(ram', a) # Load64(ram, a)

\* the step changed the leaf entry that translates page v afterwards
LeafChanged(v) == StoredAt(vmm_get_pte(Machine', v, FALSE, ram_present).pte)

\* C14: every store to a leaf entry by vmm_map_page or vmm_unmap_page, also
\* through vmm_map_range / vmm_unmap_range, is followed within the same
\* call by invlpg of the same page; no call leaves a changed leaf entry
\* whose page it did not invalidate afterwards.
C14_PteWriteInvalidated ==
    [][vmm_ops' = vmm_ops + 1 =>
          /\ \A i \in 1 .. Len(vmm_call'.ev) :
                 vmm_call'.ev[i].ev = "pte" =>
                     \E j \in (i + 1) .. Len(vmm_call'.ev) :
                         vmm_call'.ev[j] = Invlpg(vmm_call'.ev[i].page)
          /\ \A v \in VmmPages :
                 (~fault' /\ LeafChanged(v)) =>
                     \E j \in 1 .. Len(vmm_call'.ev) : vmm_call'.ev[j] = Invlpg(v)]_vars

C14_Witness ==
    /\ vmm_call.op = "vmm_unmap_range" /\ vmm_call.ok
    /\ Len(vmm_call.ev) = 4
    /\ ~fault

\* ------------------------------------------------------- scheduler specs
SchedM == [threads |-> threads, procs |-> procs, ps |-> proc_state,
           ss |-> sched_state, cpu |-> cpu, hang |-> hang, picked |-> << >>]

\* the variables of the other parts, in a kernel that only schedules
MachineUnused ==
    /\ boot_info = NoBootInfo
    /\ page_bitmap = pmm_init(NoBootInfo).bm
    /\ pmm_state = pmm_init(NoBootInfo).st
    /\ pmm_call = [op |-> "pmm_init", arg |-> 0, count |-> 0, ret |-> 0]
    /\ held = {}
    /\ returned = {}
    /\ roundtrip = TRUE
    /\ hist = << >>
    /\ ram = << >>
    /\ vmm_state = [pml4_physical |-> 0, mapped_pages |-> 0,
                    kernel_pages |-> 0, page_tables_allocated |-> 0]
    /\ heap_state = ZeroHeap
    /\ fault = FALSE
    /\ heap_call = NoHeapCall
    /\ live = {}
    /\ freed = {}
    /\ heap_ops = 0
    /\ ram_present = FALSE
    /\ vmm_call = NoVmmCall
    /\ vmap = << >>
    /\ vmm_ops = 0

\* the state k of the scheduler part, op being the call that led to it
SchedIs(k, op) ==
    /\ threads = k.threads
    /\ procs = k.procs
    /\ proc_state = k.ps
    /\ sched_state = k.ss
    /\ cpu = k.cpu
    /\ hang = k.hang
    /\ sched_call = [op |-> op, arg |-> NULL, ret |-> NULL]
    /\ sel = k.picked
    /\ out = << >>
    /\ sched_ops = 0

\* the effect of one call, which leaves state k, on the scheduler variables
SchedCore(op, arg, k, ret, out2) ==
    /\ threads' = k.threads
    /\ procs' = k.procs
    /\ proc_state' = k.ps
    /\ sched_state' = k.ss
    /\ cpu' = k.cpu
    /\ hang' = k.hang
    /\ sched_call' = [op |-> op, arg |-> arg, ret |-> ret]
    /\ sel' = sel \o k.picked
    /\ out' = out2
    /\ sched_ops' = sched_ops + 1
    /\ UNCHANGED <<pmm_vars, heap_vars, vmm_gvars>>

SchedStep(op, arg, k, ret, out2) ==
    SchedCore(op, arg, k, ret, out2) /\ UNCHANGED kern_vars

\* kernel_main: process_init, then scheduler_init
KernelBoot == scheduler_init(process_init(ZeroSched))

InitSched == MachineUnused /\ KernUnused /\ SchedIs(KernelBoot, "scheduler_init")

SchedCanCall == ~hang /\ sched_ops < MaxSchedOps

\* the control blocks that exist
Tids == {t \in 1 .. MaxThreads : threads[t].state # "none"}
Pids == {p \in 1 .. MaxProcs : procs[p].used /\ ~procs[p].freed}

ProcessCreate ==
    \E has_entry \in BOOLEAN, pcb \in BOOLEAN, alloc \in ThreadAllocs :
        /\ SchedCanCall
        /\ proc_state.next_pid <= MaxProcs
        /\ proc_state.next_tid <= MaxThreads
        /\ SchedStep("process_create", NULL,
                     process_create(SchedM, has_entry, pcb, alloc).k,
                     process_create(SchedM, has_entry, pcb, alloc).ret, out)

ThreadCreate ==
    \E proc \in Pids, alloc \in ThreadAllocs :
        /\ SchedCanCall
        /\ proc_state.next_tid <= MaxThreads
        /\ SchedStep("thread_create", proc, thread_create(SchedM, proc, alloc).k,
                     thread_create(SchedM, proc, alloc).ret, out)

\* scheduler_add_thread, called on a thread whose state is ready
SchedulerAddThread ==
    \E t \in Tids :
        /\ SchedCanCall
        /\ threads[t].state = TASK_STATE_READY
        /\ SchedStep("scheduler_add_thread", t, scheduler_add_thread(SchedM, t), NULL, out)

SchedulerRemoveThread ==
    \E t \in Tids :
        /\ SchedCanCall
        /\ SchedStep("scheduler_remove_thread", t, scheduler_remove_thread(SchedM, t),
                     NULL, out)

SchedulerStart ==
    /\ SchedCanCall
    /\ ~sched_state.running
    /\ SchedStep("scheduler_start", NULL, scheduler_start(SchedM), NULL, out)

\* scheduler_tick, the timer path's entry to the scheduler
SchedulerTick ==
    /\ SchedCanCall
    /\ SchedStep("scheduler_tick", NULL, scheduler_tick(SchedM), NULL, out)

SchedulerYield ==
    /\ SchedCanCall
    /\ SchedStep("scheduler_yield", NULL, scheduler_yield(SchedM), NULL, out)

ThreadExit ==
    /\ SchedCanCall
    /\ SchedStep("thread_exit", NULL, thread_exit(SchedM), NULL, out)

ProcessExit ==
    /\ SchedCanCall
    /\ SchedStep("process_exit", 1, process_exit(SchedM, 1), NULL, out)

\* the scheduler's interface, scheduler_add_thread and scheduler_remove_thread
\* called on any thread included, with threads created in the idle process
NextSched ==
    \/ ThreadCreate \/ SchedulerAddThread \/ SchedulerRemoveThread
    \/ SchedulerStart \/ SchedulerTick \/ SchedulerYield
SpecSched == InitSched /\ [][NextSched]_vars

\* the operations the kernel itself calls
NextProc ==
    \/ ProcessCreate \/ ThreadCreate \/ SchedulerStart \/ SchedulerTick
    \/ SchedulerYield \/ ThreadExit \/ ProcessExit
SpecProc == InitSched /\ [][NextProc]_vars

\* the threads on the chain from t through next, at most n of them
RECURSIVE ChainFrom(_, _)
ChainFrom(t, n) ==
    IF t = NULL \/ n = 0 THEN << >>
    ELSE << t >> \o ChainFrom(threads[t].next, n - 1)

\* the ready queue as the scheduler walks it; one element more than there
\* are threads shows a cycle
ReadyChain == ChainFrom(sched_state.ready_queue_head, MaxThreads + 1)
ReadySet == {ReadyChain[i] : i \in 1 .. Len(ReadyChain)}

\* --------------------------------------------------------- scheduler claims
\* C15: the chain from ready_queue_head through next is acyclic and visits
\* each thread at most once.
C15_NoDuplicates ==
    /\ Len(ReadyChain) <= MaxThreads
    /\ Cardinality(ReadySet) = Len(ReadyChain)

\* C16: every thread in the ready queue has state ready.
C16_QueuedAreReady ==
    \A t \in ReadySet : threads[t].state = TASK_STATE_READY

RunningSet == {t \in 1 .. MaxThreads : threads[t].state = TASK_STATE_RUNNING}

\* C17: at most one thread is running, and a running thread is the current
\* thread and is not in the ready queue.
C17_OneRunning ==
    /\ Cardinality(RunningSet) <= 1
    /\ \A t \in RunningSet : t = proc_state.current_thread /\ t \notin ReadySet

\* the thread of the idle process
IdleThread == procs[proc_state.idle_process].main_thread

\* C20: after process_init and scheduler_init, and after any scheduling
\* event, the idle thread is in the ready queue or is the running thread.
C20_IdleAvailable ==
    \/ IdleThread \in ReadySet
    \/ /\ threads[IdleThread].state = TASK_STATE_RUNNING
       /\ proc_state.current_thread = IdleThread

\* ------------------------------------------------------------ round robin
\* kthread_test_init, without the status thread: one process for each of the
\* test threads A, B and C
TestProcess(k) == process_create(k, TRUE, TRUE, "ok").k
kthread_test_init(k) == TestProcess(TestProcess(TestProcess(k)))

\* kthread_test_start: scheduler_start
kthread_test_start(k) == scheduler_start(k)

\* the threads A, B and C
TestThreads == {2, 3, 4}

InitRR ==
    /\ MachineUnused
    /\ KernUnused
    /\ SchedIs(kthread_test_start(kthread_test_init(KernelBoot)), "scheduler_start")

RRCanCall == ~hang /\ sched_ops < MaxRROps

\* one turn of the loop of test_thread_a, _b or _c: the thread whose code is
\* on the CPU prints its letter and yields
PrintYield ==
    /\ RRCanCall
    /\ cpu \in TestThreads
    /\ SchedStep("scheduler_yield", cpu, scheduler_yield(SchedM), NULL, Append(out, cpu))

\* a timer interrupt, whatever code is on the CPU
TimerTick ==
    /\ RRCanCall
    /\ SchedStep("scheduler_tick", NULL, scheduler_tick(SchedM), NULL, out)

NextRR == PrintYield \/ TimerTick
SpecRR == InitRR /\ [][NextRR]_vars

\* between two consecutive selections of the same thread every other thread
\* is selected exactly once
FifoSelection ==
    \A i \in 1 .. Len(sel) : \A j \in (i + 1) .. Len(sel) :
        (sel[i] = sel[j] /\ \A m \in (i + 1) .. (j - 1) : sel[m] # sel[i])
        => \A t \in TestThreads \ {sel[i]} :
               Cardinality({m \in (i + 1) .. (j - 1) : sel[m] = t}) = 1

\* every prefix of length 3k of the printed trace has each letter k times
PrefixBalanced ==
    \A n \in 1 .. (Len(out) \div 3) : \A t \in TestThreads :
        Cardinality({i \in 1 .. (3 * n) : out[i] = t}) = n

\* C18: with the fixed threads A, B, C, which only yield or are preempted,
\* selection is FIFO and every prefix of length 3k of the printed trace
\* contains each of A, B, C exactly k times.
C18_RoundRobin == FifoSelection /\ PrefixBalanced

\* ------------------------------------------------------------- ticks only
\* threads are created before the scheduler starts
CreateBeforeStart ==
    /\ ~sched_state.running
    /\ (ProcessCreate \/ ThreadCreate)

\* a timer interrupt once the scheduler runs; no thread yields, blocks or exits
RunningTick ==
    /\ ~hang
    /\ sched_state.running
    /\ sched_state.stats.total_ticks < MaxTicks
    /\ SchedStep("scheduler_tick", NULL, scheduler_tick(SchedM), NULL, out)

NextTicks == CreateBeforeStart \/ SchedulerStart \/ RunningTick
SpecTicks == InitSched /\ [][NextTicks]_vars

\* the runnable threads, the idle thread apart
Runnable ==
    {t \in Tids : threads[t].state \in {TASK_STATE_READY, TASK_STATE_RUNNING}}
        \ {IdleThread}

\* the quanta thread t has run, one it has begun counting as run
Quanta(t) ==
    (threads[t].total_runtime + SCHED_DEFAULT_TIME_SLICE - 1)
        \div SCHED_DEFAULT_TIME_SLICE

\* after N ticks each of the K runnable threads has run at least
\* floor(N / (unit * K)) - 1 quanta
EachRan(unit) ==
    (sched_state.running /\ Runnable # {})
    => \A t \in Runnable :
           Quanta(t) >= (sched_state.stats.total_ticks
                             \div (unit * Cardinality(Runnable))) - 1

\* C19: after N ticks with K runnable threads of equal slice, each thread has
\* run at least floor(N/K) - 1 quanta.
C19_QuantaAfterTicks == EachRan(1)

\* the same with N counted in quanta of 10 ticks
QuantaAfterSlices == EachRan(SCHED_DEFAULT_TIME_SLICE)

\* ------------------------------------------------------------ time slice
\* the step is a scheduler_tick while the scheduler runs and thread cur is the
\* current one
TickOf(cur) ==
    /\ sched_call'.op = "scheduler_tick"
    /\ sched_ops' = sched_ops + 1
    /\ sched_state.running /\ sched_state.initialized
    /\ proc_state.current_thread = cur

\* a process with its main thread is created at any time, before the
\* scheduler starts or by the code of a running thread
CreateAnyTime ==
    /\ ~hang
    /\ proc_state.next_pid <= MaxProcs
    /\ proc_state.next_tid <= MaxThreads
    /\ SchedStep("process_create", NULL, process_create(SchedM, TRUE, TRUE, "ok").k,
                 process_create(SchedM, TRUE, TRUE, "ok").ret, out)

\* ticks and the creation of threads; no thread yields, blocks or exits
NextSlice == CreateAnyTime \/ SchedulerStart \/ RunningTick
SpecSlice == InitSched /\ [][NextSlice]_vars

\* the tick leaves cur the current thread with one tick less
SliceDecremented(cur) ==
    /\ proc_state'.current_thread = cur
    /\ threads'[cur].time_slice = threads[cur].time_slice - 1
    /\ Len(sel') = Len(sel)

\* the tick invokes the scheduler, which selects one thread
SchedulerInvoked == Len(sel') = Len(sel) + 1

\* the tick takes the CPU from cur and gives it to a thread with a full slice
Preempted(cur) ==
    /\ SchedulerInvoked
    /\ proc_state'.current_thread # cur
    /\ threads'[cur].state = TASK_STATE_READY
    /\ threads'[proc_state'.current_thread].state = TASK_STATE_RUNNING
    /\ threads'[proc_state'.current_thread].time_slice = SCHED_DEFAULT_TIME_SLICE

\* a running thread with a ready queue that holds another thread
OthersReady(cur) ==
    /\ threads[cur].state = TASK_STATE_RUNNING
    /\ ReadySet \ {cur} # {}

\* C30: each scheduler_tick decrements the current thread's positive time_slice
\* by one and invokes the scheduler exactly when the slice is zero afterwards;
\* every thread that is switched in has its slice reset to 10.  So, with
\* another thread ready, a thread that does not yield has a slice of 1 to 10
\* ticks left, is preempted by the tick that uses up the last one and by no
\* earlier one: after exactly 10 consecutive ticks.
C30_PreemptedAfterSlice ==
    [][\A cur \in Tids :
          (TickOf(cur) /\ OthersReady(cur)) =>
              /\ threads[cur].time_slice \in 1 .. SCHED_DEFAULT_TIME_SLICE
              /\ IF threads[cur].time_slice = 1 THEN Preempted(cur)
                 ELSE SliceDecremented(cur) /\ threads'[cur].state = TASK_STATE_RUNNING]_vars

\* the tick alone: the slice is decremented when positive, the scheduler is
\* invoked exactly when it is zero afterwards, and when it selects another
\* thread that thread has a slice of 10
TickDecrements ==
    [][\A cur \in Tids :
          TickOf(cur) =>
              IF threads[cur].time_slice > 1 THEN SliceDecremented(cur)
              ELSE /\ Len(sel') = Len(sel) +
                          (IF sched_state.ready_queue_head # NULL THEN 1 ELSE 0)
                   /\ proc_state'.current_thread # cur =>
                          threads'[proc_state'.current_thread].time_slice =
                              SCHED_DEFAULT_TIME_SLICE]_vars

\* ----------------------------------------------------------- system calls
\* the kernel state z of the handlers
KernM == [k |-> SchedM, sys |-> syscall_state, con |-> console,
          tm |-> timer_state, io |-> << >>]

\* kernel_main up to syscall_init: tss_init, timer_init(1000 Hz), process_init,
\* scheduler_init, syscall_init
KernBooted ==
    /\ syscall_state = syscall_init(ZeroSyscall)
    /\ sys_call = NoSysCall
    /\ console = << >>
    /\ timer_state = timer_init(ZeroTimer, TIMER_FREQ_1000HZ)
    /\ irq_log = NoIrq
    /\ tss = tss_init(ZeroTss)
    /\ pc = NoPc
    /\ sleep = NoSleep

InitKern == MachineUnused /\ KernBooted /\ SchedIs(KernelBoot, "scheduler_init")

\* the blocks that kmalloc returns for stacks are apart from each other:
\* stack_base of thread t, and the kernel stack that start_usermode_process
\* allocates, with its top
StackBase(t) == t * 16384
UserKernelStack == [base |-> StackBase(MaxThreads + 1), size |-> 8192]
UserKernelStackTop == UserKernelStack.base + UserKernelStack.size

\* start_usermode_process: with both stacks allocated the TSS is set and
\* jump_to_usermode enters the user program; otherwise it returns and
\* kernel_main halts
StartUsermode ==
    \E stacks \in BOOLEAN :
        /\ pc.op = "none" /\ ~hang
        /\ tss' = IF stacks THEN tss_set_kernel_stack(tss, UserKernelStackTop) ELSE tss
        /\ pc' = [pc EXCEPT !.op = IF stacks THEN "user" ELSE "kernel"]
        /\ console' = Append(console, LOG)
        /\ UNCHANGED <<pmm_vars, heap_vars, vmm_gvars, sched_vars,
                       syscall_state, sys_call, timer_state, irq_log, sleep>>

\* the buffers of the user program and the bytes at them: "hi!" and
\* 'h', 0, 'i'
UserBufs == {1, 2}
UserMem(buf) ==
    IF buf = 1 THEN << 104, 105, 33 >>
    ELSE IF buf = 2 THEN << 104, 0, 105 >>
    ELSE << >>

SyscallNums == {0, 1, 2, 3, 5, 9, 10, 11, 15, 16, 99}
SysInputs ==
    [num : {SYSCALL_WRITE}, arg1 : {1, 2, 5}, arg2 : UserBufs \cup {NULL},
     arg3 : {0, 2, 3}]
    \cup [num : SyscallNums \ {SYSCALL_WRITE}, arg1 : {0, 1}, arg2 : {NULL},
          arg3 : {0}]

\* the entry trampoline: calls the dispatcher and returns to user mode with
\* its result
syscall_entry(z, n, arg1, arg2, arg3, bytes) ==
    syscall_handler(z, n, arg1, arg2, arg3, bytes)

\* the effect of a system call with result r on the model state
SysStep(in, r) ==
    /\ SchedCore("syscall", in.num, r.z.k, r.ret, out)
    /\ syscall_state' = r.z.sys
    /\ console' = r.z.con
    /\ timer_state' = r.z.tm
    /\ sys_call' = [num |-> in.num, arg1 |-> in.arg1, arg2 |-> in.arg2,
                    arg3 |-> in.arg3, ret |-> r.ret, returned |-> ~r.z.k.hang,
                    con |-> SubSeq(r.z.con, Len(console) + 1, Len(r.z.con))]
    /\ pc' = [pc EXCEPT !.op = IF r.z.k.hang THEN "kernel" ELSE "user"]
    /\ UNCHANGED <<irq_log, tss, sleep>>

\* the user program executes the syscall instruction
Syscall ==
    \E in \in SysInputs :
        /\ pc.op = "user" /\ ~hang
        /\ syscall_state.total_syscalls < MaxSysOps
        /\ SysStep(in, syscall_entry(KernM, in.num, in.arg1, in.arg2, in.arg3,
                                     UserMem(in.arg2)))

NextSys == StartUsermode \/ Syscall
SpecSys == InitKern /\ [][NextSys]_vars

\* the numbers whose table entry is a handler of its own
ImplementedCalls ==
    {SYSCALL_EXIT, SYSCALL_WRITE, SYSCALL_READ, SYSCALL_GETPID, SYSCALL_SLEEP,
     SYSCALL_YIELD}

\* C22: after syscall_init, syscall_handler returns -ENOSYS for every number
\* that is not an implemented call, the stubbed numbers up to SYSCALL_MAX and
\* every number above SYSCALL_MAX, whatever the arguments.
C22_UnimplementedENOSYS ==
    (sys_call.num >= 0 /\ sys_call.num \notin ImplementedCalls)
        => sys_call.ret = -ENOSYS

\* the stubbed numbers alone
StubbedENOSYS ==
    (sys_call.num \in (0 .. SYSCALL_MAX) \ ImplementedCalls)
        => sys_call.ret = -ENOSYS

\* C23: write(fd, buf, count) returns -EBADF and sends nothing to the console
\* when fd is neither 1 nor 2; otherwise returns -EINVAL and sends nothing when
\* buf is null; otherwise the console receives exactly the count bytes at buf,
\* in order, zero bytes included, and the call returns count.
C23_WriteSemantics ==
    sys_call.num = SYSCALL_WRITE =>
        IF sys_call.arg1 \notin {STDOUT_FILENO, STDERR_FILENO}
        THEN sys_call.ret = -EBADF /\ sys_call.con = << >>
        ELSE IF sys_call.arg2 = NULL
        THEN sys_call.ret = -EINVAL /\ sys_call.con = << >>
        ELSE /\ sys_call.con = SubSeq(UserMem(sys_call.arg2), 1, sys_call.arg3)
             /\ sys_call.ret = sys_call.arg3

\* the same for buffers whose count bytes are all non-zero
WriteNonZeroBytes ==
    (sys_call.arg2 \in UserBufs
        => \A i \in 1 .. sys_call.arg3 : UserMem(sys_call.arg2)[i] # 0)
        => C23_WriteSemantics

\* C24: the exit system call never returns to its caller: after it the user
\* program executes no further instruction.
C24_ExitNeverReturns ==
    sys_call.num = SYSCALL_EXIT => (~sys_call.returned /\ pc.op # "user")

\* ------------------------------------------------------------ interrupts
\* kernel code registers a callback, or none, before the user program starts
TimerRegisterCallback ==
    \E callback \in BOOLEAN :
        /\ pc.op = "none" /\ ~hang
        /\ callback # timer_state.callback
        /\ timer_state' = timer_register_callback(timer_state, callback)
        /\ UNCHANGED <<pmm_vars, heap_vars, vmm_gvars, sched_vars, syscall_state,
                       sys_call, console, irq_log, tss, pc, sleep>>

\* the timer, the keyboard and a line of the slave PIC
IrqVectors == {IRQ_TIMER, 33, 44}

\* the effect of the handling of interrupt int_no, which leaves state z
IrqStep(int_no, z) ==
    /\ threads' = z.k.threads
    /\ procs' = z.k.procs
    /\ proc_state' = z.k.ps
    /\ sched_state' = z.k.ss
    /\ cpu' = z.k.cpu
    /\ hang' = z.k.hang
    /\ sel' = sel \o z.k.picked
    /\ console' = z.con
    /\ timer_state' = z.tm
    /\ irq_log' = [vector |-> int_no, count |-> irq_log.count + 1,
                   timers |-> irq_log.timers + (IF int_no = IRQ_TIMER THEN 1 ELSE 0),
                   io |-> z.io]
    /\ UNCHANGED <<pmm_vars, heap_vars, vmm_gvars, sched_call, out, sched_ops,
                   syscall_state, sys_call, tss, pc, sleep>>

\* an interrupt arrives while the user program runs, where the interrupt flag
\* is set (jump_to_usermode pushes rflags 0x202)
Irq ==
    \E int_no \in IrqVectors :
        /\ pc.op = "user"
        /\ irq_log.count < MaxIrqs
        /\ IrqStep(int_no, irq_handler(KernM, int_no))

NextIrq == TimerRegisterCallback \/ StartUsermode \/ Irq
SpecIrq == InitKern /\ [][NextIrq]_vars

\* what the timer path does after the EOI
TimerPath ==
    IF timer_state.callback THEN << "scheduler_tick", "callback" >>
    ELSE << "scheduler_tick" >>

\* C26: every timer interrupt (vector 32) delivered to irq_handler first issues
\* EOI to the master PIC, then increments the tick counter by one and invokes
\* scheduler_tick once, followed by the registered callback if there is one; so
\* the tick counter equals the number of timer interrupts handled since
\* timer_init.
C26_TimerIrqTicks ==
    /\ irq_log.vector = IRQ_TIMER => irq_log.io = << "eoi_master" >> \o TimerPath
    /\ timer_state.ticks = irq_log.timers

\* the EOI alone: the master PIC gets it for every vector, after the slave
\* PIC for the vectors from 40
EoiIssued ==
    irq_log.count > 0 =>
        irq_log.io = IF irq_log.vector >= 40 THEN << "eoi_slave", "eoi_master" >>
                     ELSE << "eoi_master" >>

\* ------------------------------------------------- out of physical frames
\* the header of block b as the list code reads it
HeaderOf(mem, b) ==
    IF IsHeader(mem, b)
    THEN << b, BSize(mem, b), BFlags(mem, b), BNext(mem, b), BPrev(mem, b) >>
    ELSE << b >>

\* the block list: the blocks in order, with their headers
BlockList == [i \in 1 .. Len(Blocks) |-> HeaderOf(ram, Blocks[i])]

\* the number of bytes by which the call of this step asks kheap_expand to
\* grow the heap, or 0 when it does not come to the allocation loop
ExpandAsked(size) ==
    IF U64Less(U64(HEAP_MAX_SIZE), U64Add(U64(heap_state.heap_size), size))
    THEN U64(0) ELSE size
ExpansionOfStep ==
    IF heap_ops' # heap_ops + 1 THEN U64(0)
    ELSE IF heap_call'.op = "kheap_expand"
    THEN ExpandAsked(ALIGN_UP(heap_call'.n, PAGE_SIZE))
    ELSE IF /\ heap_call'.op = "kmalloc"
            /\ heap_state.initialized
            /\ heap_call'.n # U64(0)
            /\ find_free_block(Machine, ALIGN_UP(heap_call'.n, 8)) = NULL
    THEN ExpandAsked(ALIGN_UP(U64Add(ALIGN_UP(heap_call'.n, 8), U64(HEADER_SIZE)),
                              PAGE_SIZE))
    ELSE U64(0)

\* the allocation loop of the step's kheap_expand ends on a failed
\* pmm_alloc_frame or vmm_map_page
FramesRanOut ==
    /\ ExpansionOfStep # U64(0)
    /\ ~ExpandLoop(Machine, 0, ExpansionOfStep, Garbage).ok

\* C28: when pmm_alloc_frame returns 0 the failure propagates as a value:
\* kheap_expand returns with heap_end, heap_size and the block list unchanged,
\* and a kmalloc that needed the expansion returns NULL.
C28_FailurePropagates ==
    [][FramesRanOut =>
          /\ ~fault'
          /\ heap_state'.heap_end = heap_state.heap_end
          /\ heap_state'.heap_size = heap_state.heap_size
          /\ BlockList' = BlockList
          /\ heap_call'.op = "kmalloc" => heap_call'.ret = NULL]_vars

\* the same without the block list
FailureReturned ==
    [][FramesRanOut =>
          /\ ~fault'
          /\ heap_state'.heap_end = heap_state.heap_end
          /\ heap_state'.heap_size = heap_state.heap_size
          /\ heap_call'.op = "kmalloc" => heap_call'.ret = NULL]_vars

\* ------------------------------------------------------------------- TSS
\* thread_create: stack_size, and kernel_stack = stack_base
THREAD_STACK_SIZE == 8192
KernelStackTop(t) == StackBase(t) + THREAD_STACK_SIZE

\* the step switches from one thread to another one
ContextSwitched ==
    /\ proc_state.current_thread # NULL
    /\ proc_state'.current_thread # NULL
    /\ proc_state'.current_thread # proc_state.current_thread

\* C27: after every context switch performed by the scheduler, TSS.RSP0 is the
\* kernel stack top of the thread that was switched in.
C27_TssFollowsSwitch ==
    [][ContextSwitched => tss'.rsp0 = KernelStackTop(proc_state'.current_thread)]_vars

\* ------------------------------------------- interrupts in the scheduler
\* kernel_main runs with the interrupt flag clear; a thread entered through
\* its initial context runs with rflags 0x202, the interrupt flag set
InterruptsEnabled == cpu # BOOT_STREAM

\* the call of a stream that is in the middle of scheduler_add_thread
Pending == pc.op = "scheduler_add_thread"

\* calls of the boot code, which no interrupt divides
RaceCreate == cpu = BOOT_STREAM /\ ~Pending /\ ProcessCreate
RaceStart == cpu = BOOT_STREAM /\ SchedulerStart
RaceYield == cpu = BOOT_STREAM /\ SchedulerYield

\* the effect of a part of a call, which leaves state k and position p
RaceStep(k, p) ==
    /\ threads' = k.threads
    /\ procs' = k.procs
    /\ proc_state' = k.ps
    /\ sched_state' = k.ss
    /\ pc' = p
    /\ UNCHANGED <<pmm_vars, heap_vars, vmm_gvars, cpu, hang, sched_call, sel, out,
                   sched_ops, syscall_state, sys_call, console, timer_state,
                   irq_log, tss, sleep>>

\* a thread calls thread_create, which comes to its call of
\* scheduler_add_thread.  The process is one without threads, so that the
\* links of no queued thread are written by the list code of thread_create.
AddBegin ==
    \E proc \in Pids :
        /\ InterruptsEnabled /\ ~hang /\ ~Pending
        /\ procs[proc].thread_list = NULL
        /\ proc_state.next_tid <= MaxThreads
        /\ RaceStep(ThreadReady(ThreadNew(SchedM, proc), proc, proc_state.next_tid),
                    [op |-> "scheduler_add_thread", thread |-> proc_state.next_tid,
                     at |-> 1, by |-> cpu])

\* the stream that is in scheduler_add_thread executes its next statement
AddStmt ==
    /\ Pending /\ cpu = pc.by /\ ~hang
    /\ RaceStep(AddStatement(SchedM, pc.thread, pc.at),
                IF pc.at = 5 THEN NoPc ELSE [pc EXCEPT !.at = @ + 1])

\* a timer interrupt whose handler comes to timer_irq_handler; the handler
\* runs with the interrupt flag clear, to its end or to a context switch
TimerInterrupt ==
    /\ InterruptsEnabled /\ ~hang
    /\ timer_state.ticks < MaxRaceTicks
    /\ IrqStep(IRQ_TIMER, timer_irq_handler(KernM))

NextRace ==
    \/ RaceCreate \/ RaceStart \/ RaceYield
    \/ AddBegin \/ AddStmt \/ TimerInterrupt
SpecRace == InitKern /\ [][NextRace]_vars

\* the same with no interrupt inside scheduler_add_thread
NextSerial ==
    \/ RaceCreate \/ RaceStart \/ RaceYield
    \/ AddBegin \/ AddStmt \/ (~Pending /\ TimerInterrupt)
SpecSerial == InitKern /\ [][NextSerial]_vars

\* the ready threads that scheduler_add_thread was called for and has linked
\* (the idle thread is never given to it, C20)
AddedReady ==
    {t \in Tids \ {IdleThread} :
        /\ threads[t].state = TASK_STATE_READY
        /\ ~(Pending /\ pc.thread = t /\ pc.at <= 3)}

ThreadsOf(p) == {t \in Tids : threads[t].process = p}

\* the last call was process_exit, made while a thread was current
ProcessExited ==
    sched_call.op = "process_exit" /\ proc_state.current_thread # NULL

\* C25: process_exit(code), called while a thread of process P is current,
\* stores code in P.exit_code and leaves every thread created for P in state
\* zombie.
C25_ProcessExitZombies ==
    ProcessExited =>
        /\ ~hang
        /\ procs[process_get_current(SchedM)].exit_code = sched_call.arg
        /\ \A t \in ThreadsOf(process_get_current(SchedM)) :
               threads[t].state = TASK_STATE_ZOMBIE

\* the exit code alone
ExitCodeStored ==
    ProcessExited => procs[process_get_current(SchedM)].exit_code = sched_call.arg

\* ------------------------------------------------------------ idle thread
\* the step selects the idle thread
IdlePicked ==
    \E i \in (Len(sel) + 1) .. Len(sel') : sel'[i] = IdleThread

\* C21: whenever the scheduler picks the idle thread, the ready queue held
\* no other thread at that moment.
C21_IdleOnlyWhenAlone ==
    [][IdlePicked => ReadySet \ {IdleThread} = {}]_vars

\* ------------------------------------------------------ process thread list
\* the threads process p reaches from thread_list through next; one element
\* more than there are threads shows a cycle
ThreadListOf(p) == ChainFrom(procs[p].thread_list, MaxThreads + 1)

\* the last call was a thread_create that returned a thread
ThreadCreated ==
    sched_call.op = "thread_create" /\ sched_call.ret # NULL

\* the new thread heads the list of its process and ends the ready queue
NewThreadLinked ==
    ThreadCreated =>
        /\ procs[sched_call.arg].thread_list = sched_call.ret
        /\ sched_state.ready_queue_tail = sched_call.ret

\* C31: after thread_create succeeds the new thread is the head of proc's
\* thread list and the tail of the ready queue, and after any sequence of
\* thread_create calls and scheduling events as many threads are reachable
\* from proc.thread_list as proc.thread_count says.
C31_ThreadListComplete ==
    /\ NewThreadLinked
    /\ \A p \in Pids : Len(ThreadListOf(p)) = procs[p].thread_count

\* ------------------------------------------------------------ timer_sleep
\* the arguments of timer_sleep
SleepMs == {0, 1, 2, 3}

\* timer_sleep up to its loop: it returns at once when the timer is not
\* initialised, and else takes start and target from timer_get_milliseconds
SleepBegun(tm, milliseconds) ==
    IF ~tm.initialized \/ tm.frequency = 0
    THEN [milliseconds |-> milliseconds, start |-> 0, target |-> 0, at |-> "done"]
    ELSE [milliseconds |-> milliseconds, start |-> timer_get_milliseconds(tm),
          target |-> timer_get_milliseconds(tm) + milliseconds, at |-> "test"]

\* the condition of the loop of timer_sleep: hlt, or the return
SleepTested(tm, sl) ==
    IF timer_get_milliseconds(tm) < sl.target
    THEN [sl EXCEPT !.at = "hlt"]
    ELSE [sl EXCEPT !.at = "done"]

\* kernel code calls timer_sleep
SleepCall ==
    \E milliseconds \in SleepMs :
        /\ sleep.at = "none" /\ ~hang
        /\ sleep' = SleepBegun(timer_state, milliseconds)
        /\ UNCHANGED <<pmm_vars, heap_vars, vmm_gvars, sched_vars, syscall_state,
                       sys_call, console, timer_state, irq_log, tss, pc>>

SleepTest ==
    /\ sleep.at = "test"
    /\ sleep' = SleepTested(timer_state, sleep)
    /\ UNCHANGED <<pmm_vars, heap_vars, vmm_gvars, sched_vars, syscall_state,
                   sys_call, console, timer_state, irq_log, tss, pc>>

\* the interrupt counters of the model, which stop at MaxIrqs
IrqCounted(n) == IF n < MaxIrqs THEN n + 1 ELSE n

\* interrupt int_no arrives while timer_sleep is in its loop and its
\* handling leaves state z; it ends the hlt the CPU is in.  The console keeps
\* the first MaxIrqs messages.
SleepIrqStep(int_no, z) ==
    /\ threads' = z.k.threads
    /\ procs' = z.k.procs
    /\ proc_state' = z.k.ps
    /\ sched_state' = z.k.ss
    /\ cpu' = z.k.cpu
    /\ hang' = z.k.hang
    /\ sel' = sel \o z.k.picked
    /\ console' = IF Len(z.con) <= MaxIrqs THEN z.con ELSE console
    /\ timer_state' = z.tm
    /\ irq_log' = [vector |-> int_no, count |-> IrqCounted(irq_log.count),
                   timers |-> IF int_no = IRQ_TIMER THEN IrqCounted(irq_log.timers)
                              ELSE irq_log.timers,
                   io |-> z.io]
    /\ sleep' = [sleep EXCEPT !.at = "test"]
    /\ UNCHANGED <<pmm_vars, heap_vars, vmm_gvars, sched_call, out, sched_ops,
                   syscall_state, sys_call, tss, pc>>

\* the timer interrupt is delivered to irq_handler
SleepTimerIrq ==
    /\ sleep.at \in {"test", "hlt"}
    /\ SleepIrqStep(IRQ_TIMER, irq_handler(KernM, IRQ_TIMER))

\* another interrupt is delivered to irq_handler
SleepOtherIrq ==
    \E int_no \in IrqVectors \ {IRQ_TIMER} :
        /\ sleep.at \in {"test", "hlt"}
        /\ SleepIrqStep(int_no, irq_handler(KernM, int_no))

\* kernel code calls timer_init again before it sleeps
SleepFrequencies == {100, 500, 1000}
SleepTimerInit ==
    \E frequency \in SleepFrequencies :
        /\ sleep.at = "none" /\ ~hang
        /\ frequency # timer_state.frequency
        /\ timer_state' = timer_init(timer_state, frequency)
        /\ UNCHANGED <<pmm_vars, heap_vars, vmm_gvars, sched_vars, syscall_state,
                       sys_call, console, irq_log, tss, pc, sleep>>

NextSleep ==
    SleepTimerInit \/ SleepCall \/ SleepTest \/ SleepTimerIrq \/ SleepOtherIrq

\* the loop goes on, and the timer interrupt keeps being delivered to
\* irq_handler
SpecSleep ==
    /\ InitKern
    /\ [][NextSleep]_vars
    /\ WF_vars(SleepTest)
    /\ WF_vars(SleepTimerIrq)

\* timer_sleep returns only once the time has passed
ReturnsNoEarlier ==
    sleep.at = "done" =>
        timer_get_milliseconds(timer_state) >= sleep.start + sleep.milliseconds

\* timer_sleep(0) never halts
ZeroReturnsAtOnce == sleep.at = "hlt" => sleep.milliseconds > 0

\* C32: timer_sleep(ms), called with the timer initialised at a non-zero
\* frequency, returns only once timer_get_milliseconds() is at least its value
\* at the call plus ms; timer_sleep(0) returns without halting; and with the
\* timer interrupt delivered to irq_handler again and again every call of
\* timer_sleep returns.
C32_SleepReturns ==
    /\ []ReturnsNoEarlier
    /\ []ZeroReturnsAtOnce
    /\ (sleep.at = "test") ~> (sleep.at = "done")

\* the same kernel with irq_handler calling timer_irq_handler for the timer
\* vector
SleepTimerWired ==
    /\ sleep.at \in {"test", "hlt"}
    /\ irq_log.timers < MaxIrqs
    /\ SleepIrqStep(IRQ_TIMER, timer_irq_handler(irq_handler(KernM, IRQ_TIMER)))

NextSleepWired == SleepTimerInit \/ SleepCall \/ SleepTest \/ SleepTimerWired
SpecSleepWired ==
    /\ InitKern
    /\ [][NextSleepWired]_vars
    /\ WF_vars(SleepTest)
    /\ WF_vars(SleepTimerWired)

\* ---------------------------------------------------------------- first fit
\* the pages below highest_page whose bitmap bit is clear
ClearBelowHighest == {p \in page_bitmap : p < pmm_state.highest_page}

\* the step is a call of pmm_alloc_frame
AllocFrameCalled == pmm_call'.op = "pmm_alloc_frame"

\* the call took the lowest clear page, set its bit and no other, and
\* returned its address
TookLowest ==
    \E p \in ClearBelowHighest :
        /\ \A q \in ClearBelowHighest : p <= q
        /\ pmm_call'.ret = PAGE_TO_ADDR(p)
        /\ page_bitmap' = page_bitmap \ {p}

\* the call returned 0 and changed nothing
FailedUnchanged ==
    /\ pmm_call'.ret = 0
    /\ page_bitmap' = page_bitmap
    /\ pmm_state' = pmm_state

\* C33: pmm_alloc_frame is first-fit: when a bit below highest_page is clear
\* it returns the lowest page whose bit is clear, sets exactly that bit and
\* changes no other; it returns 0 and changes nothing exactly when no bit
\* below highest_page is clear.
C33_FirstFit ==
    [][AllocFrameCalled =>
           /\ ClearBelowHighest # {} => TookLowest /\ ~FailedUnchanged
           /\ ClearBelowHighest = {} => FailedUnchanged]_vars

\* pmm_alloc_frame has just returned a page that lies below a page handed
\* out earlier and still held, with clear pages left above it
C33_Witness ==
    /\ pmm_call.op = "pmm_alloc_frame"
    /\ pmm_call.ret # 0
    /\ ADDR_TO_PAGE(pmm_call.ret) \in held
    /\ \E q \in held : q > ADDR_TO_PAGE(pmm_call.ret)
    /\ \E q \in ClearBelowHighest : q > ADDR_TO_PAGE(pmm_call.ret)

\* pmm_alloc_frame has just returned 0 with every bit below highest_page set
AllocFrameExhausted ==
    /\ pmm_call.op = "pmm_alloc_frame"
    /\ pmm_call.ret = 0
    /\ ClearBelowHighest = {}

\* ---------------------------------------------------- ready queue counters
\* the last thread on the chain from ready_queue_head
ReadyLast == IF ReadyChain = << >> THEN NULL ELSE ReadyChain[Len(ReadyChain)]

\* C34: in every state reachable through the public scheduler operations,
\* scheduler_remove_thread on a thread that is not queued included,
\* ready_count is the number of threads reachable from ready_queue_head,
\* ready_queue_tail is the last of them, and head and tail are both NULL
\* exactly when the queue is empty.
C34_QueueCounted ==
    /\ sched_state.ready_count = U32(Len(ReadyChain))
    /\ sched_state.ready_queue_tail = ReadyLast
    /\ (sched_state.ready_queue_head = NULL /\ sched_state.ready_queue_tail = NULL)
           <=> (sched_state.ready_count = U32(0))

\* ------------------------------------------------------------------ zombies
\* the threads that thread_exit or process_exit has marked
Zombies == {t \in 1 .. MaxThreads : threads[t].state = TASK_STATE_ZOMBIE}

\* the step sets thread t running or makes it the current thread
Selected(t) ==
    \/ threads'[t].state = TASK_STATE_RUNNING
    \/ proc_state'.current_thread = t /\ proc_state.current_thread # t

\* C35: a thread that thread_exit or process_exit has marked zombie is never
\* afterwards selected by the scheduler: no step sets it running or makes it
\* the current thread.
C35_ZombieNeverSelected ==
    [][\A t \in Zombies : ~Selected(t)]_vars

\* ------------------------------------------------- process_exit, its frame
\* the step is a call of process_exit made by a thread
ProcessExitCalled ==
    sched_call'.op = "process_exit" /\ proc_state.current_thread # NULL

\* the threads of the processes other than p
ThreadsOutside(p) == {t \in Tids : threads[t].process # p}

\* C36: process_exit called by a thread of process P leaves unchanged the
\* state of every thread that belongs to a process other than P.
C36_OtherProcessesUntouched ==
    [][ProcessExitCalled =>
           \A t \in ThreadsOutside(process_get_current(SchedM)) :
               threads'[t].state = threads[t].state]_vars

\* ------------------------------------------------------------- huge pages
HUGE_PAGE_SIZE == 2097152

\* bit 7 of a page-directory entry
IsHuge(e) == (e[1] \div PTE_HUGE) % 2 = 1

\* the walk of vmm_get_pte down to the page directory of virt_addr
PdOf(m, virt_addr) ==
    WalkNext(WalkLevel(m, m.vs.pml4_physical, 0, FALSE, ram_present),
             (virt_addr \div 1073741824) % ENTRIES_PER_TABLE, FALSE, ram_present)

\* the page-directory entry of virt_addr in the directory at pd
PdEntry(m, pd, virt_addr) ==
    IF pd \in {NOTABLE, WILD} THEN U64(0)
    ELSE ReadEntry(m.mem, pd + 8 * ((virt_addr \div 2097152) % ENTRIES_PER_TABLE),
                   ram_present)

\* the leaf entry at pte lies in the 2 MiB frame that the huge entry e maps
InHugeFrame(e, pte) ==
    /\ IsPresent(e) /\ IsHuge(e)
    /\ pte # NULL
    /\ pte >= ToAddr(pte_get_addr(e))
    /\ pte < ToAddr(pte_get_addr(e)) + HUGE_PAGE_SIZE

\* C37: vmm_get_pte never treats a present page-directory entry that has the
\* huge-page bit set as a pointer to a page table: for an address of the
\* bootstrap region, such as the heap base 0x200000, the leaf entry that
\* vmm_map_page, vmm_unmap_page and vmm_get_physical read and write does not
\* lie inside the 2 MiB data frame that the huge entry maps.
C37_HugeNotFollowed ==
    \A a \in VmmPages \cup BootstrapSamples :
        ~InHugeFrame(PdEntry(Machine, PdOf(Machine, a).table, a),
                     vmm_get_pte(Machine, a, FALSE, ram_present).pte)

\* ------------------------------------------ kheap_expand that fails part-way
\* the step's kheap_expand set up its first page and failed at a later one
FailedPartWay ==
    /\ FramesRanOut
    /\ ExpandLoop(Machine, 0, U64(PAGE_SIZE), Garbage).ok

\* the frames the step took from the PMM and did not give back
FramesKept == page_bitmap \ page_bitmap'

\* q is the address of one of these frames
KeptFrame(q) == IsSmall(q) /\ q # U64(0) /\ ADDR_TO_PAGE(N(q)) \in FramesKept

\* the pages of the expansion, from the old heap_end on
ExpansionPages ==
    {heap_state.heap_end + i * PAGE_SIZE :
         i \in 0 .. ((N(ExpansionOfStep) \div PAGE_SIZE) - 1)}

\* C38: when kheap_expand fails part-way it leaks nothing: the free_pages of
\* the PMM is what it was before the call, and no page from heap_end on is
\* left mapped on a frame the call took.
C38_ExpandLeaksNothing ==
    [][FailedPartWay =>
           /\ pmm_state'.free_pages = pmm_state.free_pages
           /\ FramesKept = {}
           /\ \A v \in ExpansionPages :
                  ~KeptFrame(vmm_get_physical(Machine', v, ram_present'))]_vars

\* ------------------------------------------------------------ process list
\* the process list as process_find_by_pid and process_count walk it: from
\* head through next, at most n control blocks
RECURSIVE ProcChainFrom(_, _)
ProcChainFrom(p, n) ==
    IF p = NULL \/ n = 0 THEN << >>
    ELSE << p >> \o ProcChainFrom(procs[p].next, n - 1)

ProcessList == ProcChainFrom(proc_state.process_list_head, MaxProcs + 1)

\* the step is a process_create whose PCB was allocated and whose main
\* thread could not be created
MainThreadFailed ==
    /\ sched_call'.op = "process_create"
    /\ sched_call'.ret = NULL
    /\ proc_state'.next_pid = proc_state.next_pid + 1

\* C39: when process_create fails because thread_create returns NULL, the
\* process list is left as it was before the call, and the freed PCB is not
\* reachable from process_list_head.
C39_FailedCreateUnlisted ==
    [][MainThreadFailed =>
           /\ ProcessList' = ProcessList
           /\ \A i \in 1 .. Len(ProcessList') : ~procs'[ProcessList'[i]].freed]_vars

\* ---------------------------------------------------------- heap statistics
IsUsedBlock(b) == IsUsed(ram, b)
IsFreeBlock(b) == ~IsUsed(ram, b)
UsedBlocks == SelectSeq(Blocks, IsUsedBlock)
FreeBlocks == SelectSeq(Blocks, IsFreeBlock)

\* C40: after every heap operation the statistics agree with the block list:
\* free_size is the sum of the sizes of the free blocks, used_size that of the
\* used blocks, and num_blocks, num_free_blocks and num_used_blocks are the
\* numbers of blocks, of free blocks and of used blocks.
C40_StatsAgree ==
    (~fault /\ ListReadable) =>
        /\ heap_state.stats.free_size = SumSizes(FreeBlocks)
        /\ heap_state.stats.used_size = SumSizes(UsedBlocks)
        /\ heap_state.stats.num_blocks = U64(Len(Blocks))
        /\ heap_state.stats.num_free_blocks = U64(Len(FreeBlocks))
        /\ heap_state.stats.num_used_blocks = U64(Len(UsedBlocks))

====
